---- MODULE Spec2Model ----
(***************************************************************************)
(* muckrake_discord_bot: the pattern-detector pipeline                     *)
(* (.sdlc/scripts/pattern-detector) and the Discord bot (app/).            *)
(* Of the pipeline: the memory store writer                                *)
(* (update_memory.py), the hook configuration synchronizer                 *)
(* (update_precommit.py), the orchestrating CLI (cli.py), the defeat test  *)
(* generator (generate_tests.py), the pattern scorer (analyze.py), the     *)
(* proposal composer (propose_updates.py) and the signal readers           *)
(* (collect.py). Of the bot: the process and its shutdown (bot.py), the    *)
(* image commands (commands/image_commands.py, utils/permissions.py) and   *)
(* the global error handler of the slash commands (bot.py).                *)
(*                                                                         *)
(* The specifications that share the module:                               *)
(*   SpecMemory    calls of MemoryUpdater.add_learnings on one store file  *)
(*   SpecHook      calls of PreCommitUpdater.update on one config file     *)
(*   Spec          invocations of the PatternHunterCLI commands            *)
(*   SpecTests     runs of generate_tests.py on one output directory       *)
(*   SpecScorer    requests to PatternAnalyzer and its oracle retries      *)
(*   SpecComposer  calls of ProposalGenerator.generate_proposals           *)
(*   SpecReader    commits to a repository and GitHistoryAnalyzer.analyze  *)
(*   SpecPrompt    one yes/no or choice gate of the CLI, the lines typed   *)
(*   SpecCollector commits to a repository and collect_all_signals         *)
(*   SpecShutdown  the bot process from main() to its exit on a signal     *)
(*   SpecImage     one image command through _handle_image_command         *)
(*   SpecHandler   one command error through on_app_command_error          *)
(***************************************************************************)
EXTENDS Integers, Sequences, FiniteSets, TLC

(***************************************************************************)
(* Bounds of the model.                                                    *)
(***************************************************************************)
\* longest proposal list handed to one add_learnings call
MaxProposals == 2
\* most entries the memory store file holds before the model stops adding
MaxStore == 3
\* most entries of an initial memory store file
MaxInitial == 1
\* most repos of an initial hook configuration
MaxRepos == 2
\* most hooks of a repo of an initial hook configuration
MaxHooks == 1
\* largest id of an entry of an initial memory store file
MaxInitId == 2
\* most invocations of the CLI in one behaviour
MaxRuns == 2
\* most patterns one analysis identifies
MaxPatterns == 2
\* most patterns of the file one generate_tests run reads
MaxBatch == 2
\* most patterns of an oracle document that holds more than one
MaxScored == 2
\* most patterns of the analysis one generate_proposals call reads
MaxComposed == 2
\* most commits of the window the version-control reader scans
MaxCommits == 5
\* most lines a user types at one prompt
MaxTyped == 2

VARIABLES
    memory_file,    \* content of ~/.agent-memory/memories.json
    mem_last,       \* the last add_learnings call: inputs, store before, result
    mem_prev,       \* the call before it, when the last call repeated it
    config_file,    \* content of .pre-commit-config.yaml
    DEFAULT_CONFIG, \* the 'repos' list of update_precommit.DEFAULT_CONFIG in
                    \* the running process
    hook_last,      \* the last PreCommitUpdater.update call: inputs, file before, result
    hook_prev,      \* the call before it, when the last call repeated it
    cli,            \* the PatternHunterCLI invocation: arguments, self.state, the
                    \* locals of the running command, its position and exit code
    fs,             \* the repository's files the CLI works on: the state
                    \* directory, state.json, the artifacts and the defeat tests
    fs_before,      \* fs as it was when the current invocation started
    gen,            \* the last run of generate_tests.py: inputs, results and
                    \* the output directory before and after
    scorer,         \* the last PatternAnalyzer request: inputs, the oracle
                    \* attempts made, the waits, and the outcome
    composer,       \* the last ProposalGenerator request: patterns, oracle
                    \* behaviour and the proposals returned
    reader,         \* the last GitHistoryAnalyzer.analyze: commit log and signals
    prompt,         \* one gate of the CLI: the lines typed at it and its answer
    collector,      \* the last collect_all_signals: what the readers met and
                    \* the signals returned
    shutdown,       \* the bot process from main() on: the event loop's tasks,
                    \* the log, the calls of bot.close() and the exit
    image,          \* one image command: configuration, interaction and the
                    \* responses sent
    handler         \* one command error in on_app_command_error: the error,
                    \* the interaction and the messages sent

memVars == <<memory_file, mem_last, mem_prev>>

hookVars == <<config_file, DEFAULT_CONFIG, hook_last, hook_prev>>

cliVars == <<cli, fs, fs_before>>

\* what a CLI step never touches: the records of direct calls and the
\* DEFAULT_CONFIG of a long-lived process
callVars == <<mem_last, mem_prev, DEFAULT_CONFIG, hook_last, hook_prev>>

\* the records of the stage scripts run on their own
stageVars == <<gen, scorer, composer, reader, prompt, collector>>

\* the Discord bot (app/)
botVars == <<shutdown, image, handler>>

vars == <<memory_file, mem_last, mem_prev,
          config_file, DEFAULT_CONFIG, hook_last, hook_prev,
          cli, fs, fs_before, gen, scorer, composer, reader, prompt,
          collector, shutdown, image, handler>>

(***************************************************************************)
(* Generic helpers on sequences.                                           *)
(***************************************************************************)
Range(s) == {s[i] : i \in 1..Len(s)}

SeqsUpTo(S, n) == UNION {[1..k -> S] : k \in 0..n}

Max(S) == CHOOSE x \in S : \A y \in S : y <= x

\* the record of a stage script that has not been run
NotCalled == [called |-> FALSE]

(***************************************************************************)
(* Strings are sequences of one-character strings, so that the slug        *)
(* conversion is computed character by character as the code does.         *)
(***************************************************************************)
str_lower(c) ==
    CASE c = "S" -> "s"
      [] c = "F" -> "f"
      [] c = "G" -> "g"
      [] c = "U" -> "u"
      [] c = "P" -> "p"
      [] c = "H" -> "h"
      [] c = "I" -> "i"
      [] c = "W" -> "w"
      [] c = "A" -> "a"
      [] c = "B" -> "b"
      [] c = "C" -> "c"
      [] c = "D" -> "d"
      [] c = "E" -> "e"
      [] c = "J" -> "j"
      [] c = "K" -> "k"
      [] c = "L" -> "l"
      [] c = "M" -> "m"
      [] c = "N" -> "n"
      [] c = "O" -> "o"
      [] c = "Q" -> "q"
      [] c = "R" -> "r"
      [] c = "T" -> "t"
      [] c = "V" -> "v"
      [] c = "X" -> "x"
      [] c = "Y" -> "y"
      [] c = "Z" -> "z"
      [] OTHER -> c

\* the character class [a-z0-9] of the two regular expressions
AlnumLower == {"s", "f", "g", "u", "n", "k", "o", "w", "p", "a", "t", "e", "r", "1"}

RECURSIVE lower(_)
lower(s) == IF s = <<>> THEN <<>> ELSE <<str_lower(Head(s))>> \o lower(Tail(s))

\* re.sub(r'[^a-z0-9]+', '_', s): every maximal run of other characters
\* becomes one underscore
RECURSIVE sub_non_alnum(_, _)
sub_non_alnum(s, inRun) ==
    IF s = <<>> THEN <<>>
    ELSE IF Head(s) \in AlnumLower
         THEN <<Head(s)>> \o sub_non_alnum(Tail(s), FALSE)
         ELSE IF inRun THEN sub_non_alnum(Tail(s), TRUE)
              ELSE <<"_">> \o sub_non_alnum(Tail(s), TRUE)

RECURSIVE lstrip_underscore(_)
lstrip_underscore(s) ==
    IF s # <<>> /\ Head(s) = "_" THEN lstrip_underscore(Tail(s)) ELSE s

RECURSIVE rstrip_underscore(_)
rstrip_underscore(s) ==
    IF s # <<>> /\ s[Len(s)] = "_"
    THEN rstrip_underscore(SubSeq(s, 1, Len(s) - 1))
    ELSE s

\* s.strip('_')
strip_underscore(s) == rstrip_underscore(lstrip_underscore(s))

\* re.sub(r'_+', '_', s)
RECURSIVE sub_underscores(_, _)
sub_underscores(s, inRun) ==
    IF s = <<>> THEN <<>>
    ELSE IF Head(s) = "_"
         THEN IF inRun THEN sub_underscores(Tail(s), TRUE)
              ELSE <<"_">> \o sub_underscores(Tail(s), TRUE)
         ELSE <<Head(s)>> \o sub_underscores(Tail(s), FALSE)

\* MemoryUpdater._generate_pattern_slug
generate_pattern_slug(pattern_name) ==
    sub_underscores(strip_underscore(sub_non_alnum(lower(pattern_name), FALSE)), FALSE)

(***************************************************************************)
(* Memory store writer (update_memory.py).                                 *)
(***************************************************************************)
\* the two defaults the code uses for a proposal without 'pattern_name'
DefaultNameInLoop == <<"U", "n", "k", "n", "o", "w", "n">>
DefaultNameInEntry == <<"U", "n", "k", "n", "o", "w", "n", " ", "P", "a", "t", "t", "e", "r", "n">>

\* pattern names a proposal may carry
PatternNames ==
    { <<"S", " ", "F">>,            \* "S F"
      <<"s", "_", "_", "f", "!">>,  \* "s__f!", the same slug as "S F"
      <<"G", "1">> }                \* "G1"

\* a proposal: 'pattern_name' is a string, is missing, or is null
Proposals ==
    [has_name : {TRUE}, name_is_null : {FALSE}, pattern_name : PatternNames]
        \cup {[has_name |-> FALSE, name_is_null |-> FALSE, pattern_name |-> <<>>],
              [has_name |-> TRUE, name_is_null |-> TRUE, pattern_name |-> <<>>]}

ProposalLists == SeqsUpTo(Proposals, MaxProposals)

\* the slug of every name the model computes one for, computed once
SlugOf ==
    [n \in PatternNames \cup {DefaultNameInLoop, DefaultNameInEntry}
        |-> generate_pattern_slug(n)]

\* proposal.get('pattern_name', default)
get_pattern_name(proposal, default) ==
    IF proposal.has_name THEN proposal.pattern_name ELSE default

\* an entry of the store; has_pid is whether metadata.pattern_id is there
MemoryEntry(id, has_pid, pid, by) ==
    [id |-> id, has_pid |-> has_pid, pattern_id |-> pid,
     defeat_test |-> IF by = "pattern-detector"
                     THEN <<"test_">> \o pid \o <<".py">> ELSE <<>>,
     added_by |-> by]

\* the store file: absent, not JSON, JSON that is no list, or a list of entries
MemoryFile(kind, entries) == [kind |-> kind, entries |-> entries]

\* MemoryUpdater._load_existing_memories: the list read, the file as the load
\* leaves it, and whether it raised
load_existing_memories(file, dry_run) ==
    CASE file.kind = "absent" ->
            [memories |-> <<>>, raised |-> FALSE,
             file |-> IF dry_run THEN file ELSE MemoryFile("list", <<>>)]
      [] file.kind = "invalid" ->
            [memories |-> <<>>, raised |-> TRUE, file |-> file]
      [] file.kind = "notlist" ->
            [memories |-> <<>>, raised |-> FALSE, file |-> file]
      [] OTHER ->
            [memories |-> file.entries, raised |-> FALSE, file |-> file]

\* check_duplicate returning from inside its loop: only the first entry is compared
check_duplicate_first_entry_only(memories, pattern_id) ==
    IF memories # <<>> /\ memories[1].has_pid /\ memories[1].pattern_id = pattern_id
    THEN 1 ELSE 0

\* MemoryUpdater._check_duplicate: the index of the first entry whose
\* metadata.pattern_id is pattern_id, 0 when there is none
check_duplicate(memories, pattern_id) ==
    LET hits == {i \in 1..Len(memories) :
                    memories[i].has_pid /\ memories[i].pattern_id = pattern_id}
    IN IF hits = {} THEN 0 ELSE CHOOSE i \in hits : \A j \in hits : i <= j

\* MemoryUpdater._create_memory_entry
create_memory_entry(proposal, next_id) ==
    LET pattern_name == get_pattern_name(proposal, DefaultNameInEntry)
        pattern_slug == SlugOf[pattern_name]
    IN MemoryEntry(next_id, TRUE, pattern_slug, "pattern-detector")

\* next_id taken from the number of entries instead of the largest id
first_next_id_from_len(memories) == Len(memories) + 1

\* next_id of add_learnings: max(m.get('id', 0) for m in memories) + 1, else 1
first_next_id(memories) ==
    IF memories # <<>> THEN Max({memories[i].id : i \in 1..Len(memories)}) + 1
    ELSE 1

\* the result add_learnings starts from; raised is whether the call ended
\* in an exception instead of returning the result
EmptyResult == [added |-> <<>>, skipped |-> <<>>, errors |-> <<>>, raised |-> FALSE]

\* the loop of add_learnings over proposals[k..], with the list, the next id
\* and the result so far; _generate_pattern_slug, called outside the try,
\* raises AttributeError on a name that is no string
RECURSIVE process_proposals(_, _, _, _, _)
process_proposals(proposals, k, memories, next_id, result) ==
    IF k > Len(proposals)
    THEN [memories |-> memories, result |-> result]
    ELSE IF proposals[k].name_is_null
    THEN [memories |-> memories, result |-> [result EXCEPT !.raised = TRUE]]
    ELSE LET proposal == proposals[k]
             pattern_name == get_pattern_name(proposal, DefaultNameInLoop)
             pattern_slug == SlugOf[pattern_name]
             existing == check_duplicate(memories, pattern_slug)
         IN IF existing # 0
            THEN process_proposals(proposals, k + 1, memories, next_id,
                    [result EXCEPT !.skipped = Append(@,
                        [pattern_name |-> pattern_name,
                         pattern_id |-> pattern_slug,
                         existing_id |-> memories[existing].id])])
            ELSE LET entry == create_memory_entry(proposal, next_id)
                 IN process_proposals(proposals, k + 1,
                        Append(memories, entry), next_id + 1,
                        [result EXCEPT !.added = Append(@,
                            [pattern_name |-> pattern_name,
                             pattern_id |-> pattern_slug,
                             memory_id |-> entry.id])])

\* MemoryUpdater._save_memories_direct
save_memories_direct(file, memories, dry_run) ==
    IF dry_run THEN file ELSE MemoryFile("list", memories)

\* MemoryUpdater._save_memory_mcp: the stub reports failure unless dry_run
save_memory_mcp(dry_run) == dry_run

\* MemoryUpdater.add_learnings: the store file afterwards and the result
add_learnings(file, proposals, dry_run, use_mcp) ==
    LET loaded == load_existing_memories(file, dry_run)
    IN IF loaded.raised
       THEN [file |-> loaded.file,
             result |-> [EmptyResult EXCEPT !.errors = <<"Failed to load memories">>]]
       ELSE LET done == process_proposals(proposals, 1, loaded.memories,
                            first_next_id(loaded.memories), EmptyResult)
                mcp_available == use_mcp
            IN [file |-> IF done.result.added # <<>> /\ ~dry_run /\ ~done.result.raised
                         THEN IF use_mcp /\ mcp_available /\ save_memory_mcp(dry_run)
                              THEN loaded.file
                              ELSE save_memories_direct(loaded.file, done.memories, dry_run)
                         ELSE loaded.file,
                result |-> done.result]

\* slugs an initial store may hold
InitialSlugs ==
    { SlugOf[<<"S", " ", "F">>], SlugOf[DefaultNameInLoop] }

InitialEntries ==
    { MemoryEntry(id, TRUE, pid, "user") : id \in 1..MaxInitId, pid \in InitialSlugs }
        \cup { MemoryEntry(id, FALSE, <<>>, "user") : id \in 1..MaxInitId }

\* initial stores: ids unique, no two entries with the same metadata.pattern_id
InitialStores ==
    { s \in SeqsUpTo(InitialEntries, MaxInitial) :
        \A i, j \in 1..Len(s) :
            i # j => /\ s[i].id # s[j].id
                     /\ ~(s[i].has_pid /\ s[j].has_pid
                          /\ s[i].pattern_id = s[j].pattern_id) }

\* a "notlist" file is a JSON value that is no list; entries is what an
\* object such as {"memories": [...]} holds
InitialMemoryFiles ==
    { MemoryFile("absent", <<>>), MemoryFile("invalid", <<>>),
      MemoryFile("notlist", <<>>),
      MemoryFile("notlist", <<MemoryEntry(1, FALSE, <<>>, "user")>>) }
        \cup { MemoryFile("list", s) : s \in InitialStores }

NoCall == [called |-> FALSE]

CallRecord(proposals, dry_run, before, result) ==
    [called |-> TRUE, proposals |-> proposals, dry_run |-> dry_run,
     before |-> before, result |-> result]

\* the store the call would read holds fewer than MaxStore entries afterwards
StoreHasRoom(proposals) ==
    Len(memory_file.entries) + Len(proposals) <= MaxStore

\* one call of MemoryUpdater(...).add_learnings(proposals)
AddLearnings ==
    \E proposals \in ProposalLists, dry_run \in BOOLEAN :
        /\ StoreHasRoom(proposals)
        /\ \E r \in {add_learnings(memory_file, proposals, dry_run, use_mcp) :
                        use_mcp \in BOOLEAN} :
              /\ memory_file' = r.file
              /\ mem_last' = CallRecord(proposals, dry_run, memory_file, r.result)
        /\ mem_prev' = NoCall
        /\ UNCHANGED <<hookVars, cliVars, stageVars, botVars>>

\* the same call made again: same proposals, same mode
AddLearningsAgain ==
    /\ mem_last.called
    /\ StoreHasRoom(mem_last.proposals)
    /\ \E r \in {add_learnings(memory_file, mem_last.proposals, mem_last.dry_run,
                                use_mcp) : use_mcp \in BOOLEAN} :
          /\ memory_file' = r.file
          /\ mem_last' = CallRecord(mem_last.proposals, mem_last.dry_run,
                                    memory_file, r.result)
    /\ mem_prev' = mem_last
    /\ UNCHANGED <<hookVars, cliVars, stageVars, botVars>>

MemNext == AddLearnings \/ AddLearningsAgain

(***************************************************************************)
(* Hook configuration synchronizer (update_precommit.py).                  *)
(***************************************************************************)
\* a hook: each of the four required keys may be missing
Hook(has_id, id, has_entry, entry, has_name, has_language) ==
    [has_id |-> has_id, id |-> id, has_entry |-> has_entry, entry |-> entry,
     has_name |-> has_name, has_language |-> has_language]

\* a repo entry: 'repo' and 'hooks' may be missing
Repo(has_repo, repo, has_hooks, hooks) ==
    [has_repo |-> has_repo, repo |-> repo, has_hooks |-> has_hooks, hooks |-> hooks]

\* a configuration: 'repos' is missing, null or a list
Config(repos_kind, repos) == [repos_kind |-> repos_kind, repos |-> repos]

\* the file: absent, empty, not YAML, YAML that is no mapping, or a mapping
ConfigFile(kind, doc) == [kind |-> kind, doc |-> doc]

NoDoc == Config("missing", <<>>)

\* test directories, as path segments and separators
TestDirs ==
    { <<".sdlc", "/", "tests", "/", "patterns">>,
      <<".sdlc", "\\", "tests", "\\", "patterns">>,
      <<"tests">> }

\* str.replace('\\', '/')
RECURSIVE replace_backslash(_)
replace_backslash(path) ==
    IF path = <<>> THEN <<>>
    ELSE <<IF Head(path) = "\\" THEN "/" ELSE Head(path)>>
            \o replace_backslash(Tail(path))

\* PreCommitUpdater.get_test_command
get_test_command(test_dir) ==
    <<"pytest ">> \o replace_backslash(test_dir) \o <<" -v">>

\* PreCommitUpdater.load_config: the configuration, and whether it is
\* DEFAULT_CONFIG.copy(), which shares the 'repos' list of DEFAULT_CONFIG
load_config(file, default_repos) ==
    LET default == [config |-> Config("list", default_repos), is_default |-> TRUE]
    IN CASE file.kind \in {"absent", "empty", "nondict", "unparsable"} -> default
         [] OTHER ->
              [config |-> IF file.doc.repos_kind = "missing"
                          THEN Config("list", <<>>) ELSE file.doc,
               is_default |-> FALSE]

\* the first of the indices that passed a loop's test, 0 when none did
FirstIndex(hits) ==
    IF hits = {} THEN 0 ELSE CHOOSE i \in hits : \A j \in hits : i <= j

\* a find_local_repo that never finds the local repo
find_local_repo_none(config) == 0

\* PreCommitUpdater.find_local_repo, as an index into config['repos']
find_local_repo(config) ==
    LET IsLocal(repo) == repo.has_repo /\ repo.repo = "local"
    IN FirstIndex({i \in 1..Len(config.repos) : IsLocal(config.repos[i])})

\* a find_pattern_hook that never finds the pattern hook
find_pattern_hook_none(local_repo) == 0

\* PreCommitUpdater.find_pattern_hook, as an index into local_repo['hooks']
find_pattern_hook(local_repo) ==
    LET IsPatternHook(hook) == hook.has_id /\ hook.id = "pattern-defeat-tests"
    IN FirstIndex({i \in 1..Len(local_repo.hooks) : IsPatternHook(local_repo.hooks[i])})

\* the hook update_config appends
NewPatternHook(test_command) ==
    Hook(TRUE, "pattern-defeat-tests", TRUE, test_command, TRUE, TRUE)

\* PreCommitUpdater.update_config: the updated configuration and changed;
\* raised when iterating a null 'repos' raises TypeError.  Each step of the
\* method takes the configuration and the changed flag the step before left.
update_config(config, test_dir) ==
    LET \* the pattern hook is appended, or its entry is brought up to date
        SetHook(c, changed, at, pattern_hook, test_command) ==
            IF pattern_hook = 0
            THEN [config |-> [c EXCEPT !.repos[at].hooks =
                                        Append(@, NewPatternHook(test_command))],
                  changed |-> TRUE, raised |-> FALSE]
            ELSE IF ~c.repos[at].hooks[pattern_hook].has_entry
                    \/ c.repos[at].hooks[pattern_hook].entry # test_command
                 THEN [config |-> [c EXCEPT
                                    !.repos[at].hooks[pattern_hook].has_entry = TRUE,
                                    !.repos[at].hooks[pattern_hook].entry = test_command],
                       changed |-> TRUE, raised |-> FALSE]
                 ELSE [config |-> c, changed |-> changed, raised |-> FALSE]
        \* the pattern hook is looked for in the local repo config.repos[at]
        FindHook(c, changed, at) ==
            SetHook(c, changed, at, find_pattern_hook(c.repos[at]),
                    get_test_command(test_dir))
        \* the local repo gets a 'hooks' list when it has none
        EnsureHooks(c, changed, at) ==
            FindHook(IF c.repos[at].has_hooks THEN c
                     ELSE [c EXCEPT !.repos[at].has_hooks = TRUE,
                                    !.repos[at].hooks = <<>>],
                     changed \/ ~c.repos[at].has_hooks, at)
        \* a local repo is appended when none was found
        EnsureLocal(c, changed, found) ==
            EnsureHooks(IF found = 0
                        THEN Config("list",
                                Append(c.repos, Repo(TRUE, "local", TRUE, <<>>)))
                        ELSE c,
                        changed \/ found = 0,
                        IF found = 0 THEN Len(c.repos) + 1 ELSE found)
        \* the local repo is looked for once 'repos' exists
        EnsureRepos(c, changed) == EnsureLocal(c, changed, find_local_repo(c))
    IN IF config.repos_kind = "null"
       THEN [config |-> config, changed |-> FALSE, raised |-> TRUE]
       ELSE EnsureRepos(IF config.repos_kind = "missing"
                        THEN Config("list", <<>>) ELSE config,
                        config.repos_kind = "missing")

\* a validate_config that accepts every configuration
validate_config_accepts_all(config) == TRUE

\* PreCommitUpdater.validate_config
validate_config(config) ==
    /\ config.repos_kind = "list"
    /\ \A i \in 1..Len(config.repos) :
        LET repo == config.repos[i]
        IN /\ repo.has_repo
           /\ repo.has_hooks
           /\ \A j \in 1..Len(repo.hooks) :
                LET hook == repo.hooks[j]
                IN hook.has_id /\ hook.has_name /\ hook.has_entry /\ hook.has_language

\* a write_config that writes the local entries alone
write_config_local_only(config) ==
    LET IsLocal(repo) == repo.has_repo /\ repo.repo = "local"
    IN [kind |-> "doc",
        doc |-> [config EXCEPT !.repos = SelectSeq(config.repos, IsLocal)]]

\* PreCommitUpdater.write_config
write_config(config) == ConfigFile("doc", config)

\* PreCommitUpdater.update: (success, changed), the file afterwards, and the
\* 'repos' list of DEFAULT_CONFIG afterwards; install_ok is what install_hooks
\* returns when install is asked for
update(file, default_repos, test_dir, dry_run, install, install_ok) ==
    LET Outcome(success, changed, f, shared) ==
            [success |-> success, changed |-> changed, file |-> f,
             default_repos |-> shared]
        \* from 'if not changed' on; shared is what update_config left in
        \* the 'repos' list of DEFAULT_CONFIG
        Finish(updated, shared) ==
            CASE updated.raised -> Outcome(FALSE, FALSE, file, shared)
              [] ~updated.raised /\ ~updated.changed ->
                    Outcome(TRUE, FALSE, file, shared)
              [] ~updated.raised /\ updated.changed
                    /\ ~validate_config(updated.config) ->
                    Outcome(FALSE, FALSE, file, shared)
              [] OTHER ->
                    IF dry_run THEN Outcome(TRUE, TRUE, file, shared)
                    ELSE IF install /\ ~install_ok
                         THEN Outcome(FALSE, TRUE, write_config(updated.config), shared)
                         ELSE Outcome(TRUE, TRUE, write_config(updated.config), shared)
        Updated(loaded, updated) ==
            Finish(updated, IF loaded.is_default /\ ~updated.raised
                            THEN updated.config.repos ELSE default_repos)
        Loaded(loaded) == Updated(loaded, update_config(loaded.config, test_dir))
    IN Loaded(load_config(file, default_repos))

\* hooks and repos an initial configuration file may hold
InitialHooks ==
    { Hook(TRUE, "pattern-defeat-tests", TRUE,
           get_test_command(<<".sdlc", "/", "tests", "/", "patterns">>), TRUE, TRUE),
      Hook(TRUE, "pattern-defeat-tests", FALSE, <<>>, FALSE, TRUE),
      Hook(TRUE, "black", TRUE, <<"black">>, TRUE, TRUE),
      Hook(TRUE, "black", TRUE, <<"black">>, TRUE, FALSE) }

InitialRepos ==
    { Repo(TRUE, "local", TRUE, hooks) : hooks \in SeqsUpTo(InitialHooks, MaxHooks) }
        \cup { Repo(TRUE, "local", FALSE, <<>>),
               Repo(TRUE, "https://github.com/psf/black", FALSE, <<>>),
               Repo(FALSE, "", TRUE, <<>>) }
        \cup { Repo(TRUE, "https://github.com/psf/black", TRUE, hooks) :
                hooks \in SeqsUpTo({h \in InitialHooks : h.has_name /\ h.has_language},
                                   MaxHooks) }

InitialConfigFiles ==
    { ConfigFile(kind, NoDoc) : kind \in {"absent", "empty", "unparsable", "nondict"} }
        \cup { ConfigFile("doc", Config("list", repos)) :
                repos \in SeqsUpTo(InitialRepos, MaxRepos) }
        \cup { ConfigFile("doc", Config("missing", <<>>)),
               ConfigFile("doc", Config("null", <<>>)) }

NoUpdate == [called |-> FALSE]

UpdateRecord(test_dir, dry_run, before, outcome) ==
    [called |-> TRUE, test_dir |-> test_dir, dry_run |-> dry_run, before |-> before,
     success |-> outcome.success, changed |-> outcome.changed]

InstallOutcomes ==
    { [install |-> FALSE, ok |-> TRUE], [install |-> TRUE, ok |-> TRUE],
      [install |-> TRUE, ok |-> FALSE] }

\* one call of PreCommitUpdater(config_path, test_dir).update(dry_run, install)
Update ==
    \E test_dir \in TestDirs, dry_run \in BOOLEAN :
        /\ \E r \in {update(config_file, DEFAULT_CONFIG, test_dir, dry_run,
                            i.install, i.ok) : i \in InstallOutcomes} :
              /\ config_file' = r.file
              /\ DEFAULT_CONFIG' = r.default_repos
              /\ hook_last' = UpdateRecord(test_dir, dry_run, config_file, r)
        /\ hook_prev' = NoUpdate
        /\ UNCHANGED <<memVars, cliVars, stageVars, botVars>>

\* the same call made again: same test directory, same mode
UpdateAgain ==
    /\ hook_last.called
    /\ \E r \in {update(config_file, DEFAULT_CONFIG, hook_last.test_dir,
                        hook_last.dry_run, i.install, i.ok) : i \in InstallOutcomes} :
          /\ config_file' = r.file
          /\ DEFAULT_CONFIG' = r.default_repos
          /\ hook_last' = UpdateRecord(hook_last.test_dir, hook_last.dry_run,
                                       config_file, r)
    /\ hook_prev' = hook_last
    /\ UNCHANGED <<memVars, cliVars, stageVars, botVars>>

\* the process ends and update_precommit is imported afresh by the next one
NewProcess ==
    /\ DEFAULT_CONFIG # <<>>
    /\ DEFAULT_CONFIG' = <<>>
    /\ UNCHANGED <<config_file, hook_last, hook_prev>>
    /\ UNCHANGED <<memVars, cliVars, stageVars, botVars>>

HookNext == Update \/ UpdateAgain \/ NewProcess

(***************************************************************************)
(* Orchestrating CLI (cli.py).  A command is a sequence of steps, one per  *)
(* stage or prompt; cli.pc is the step the running command is at.          *)
(***************************************************************************)
Commands == {"hunt", "collect", "analyze", "generate", "apply"}

\* exit code of main on KeyboardInterrupt
ExitInterrupted == 130
\* exit code of main on any other exception, and of a command's early return
ExitError == 1

\* exit codes a child script may end with
SubprocessCodes == {0, 1, 2}

\* what the user may type at a yes/no prompt; "^C" interrupts
Responses == {"", "y", "n", "^C"}

\* a path that names no file (None, or an argument that was not given)
NoFile == <<"none", 0>>

\* a file's content: its format, and the patterns or proposals it holds
Content(format, pats, props) ==
    [format |-> format, patterns |-> pats, proposals |-> props]

\* name of the i-th pattern an analysis identifies
PatternNameOf(i) ==
    CASE i = 1 -> <<"S", " ", "F">>
      [] i = 2 -> <<"G", "1">>
      [] OTHER -> <<"s", "_", "_", "f", "!">>

\* the proposal propose_updates generates for a pattern
ProposalFor(i) ==
    [has_name |-> TRUE, name_is_null |-> FALSE, pattern_name |-> PatternNameOf(i)]

\* the proposals for a set of patterns, in the patterns' order
RECURSIVE ProposalsFor(_)
ProposalsFor(pats) ==
    IF pats = {} THEN <<>>
    ELSE LET first == CHOOSE i \in pats : \A j \in pats : i <= j
         IN <<ProposalFor(first)>> \o ProposalsFor(pats \ {first})

\* the placeholder patterns and proposals of a dry run
MockPatterns == {1}
MockProposals ==
    << [has_name |-> TRUE, name_is_null |-> FALSE, pattern_name |-> <<"Mock Pattern 1">>] >>

\* self.state; is_dict is FALSE when state.json held JSON that is no object
PipelineState(is_dict, last_run, last_collection, last_analysis, pending, approved) ==
    [is_dict |-> is_dict, last_run |-> last_run,
     last_collection |-> last_collection, last_analysis |-> last_analysis,
     patterns_pending_review |-> pending, patterns_approved |-> approved]

\* the state _load_state returns when there is none to load
DefaultState == PipelineState(TRUE, 0, NoFile, NoFile, {}, {})

\* state.json: absent, not JSON, JSON that is no object, or a state object
StateFile(kind, state) == [kind |-> kind, state |-> state]

\* PatternHunterCLI._load_state
load_state(state_file) ==
    CASE state_file.kind = "json" -> state_file.state
      [] state_file.kind = "notdict" -> [DefaultState EXCEPT !.is_dict = FALSE]
      [] OTHER -> DefaultState

\* PatternHunterCLI._save_state: written whatever self.dry_run is
save_state(state) == StateFile(IF state.is_dict THEN "json" ELSE "notdict", state)

\* self.state[key] = value, which raises TypeError when self.state is no dict
set_state(state, key, value) ==
    [raised |-> ~state.is_dict,
     state |-> IF state.is_dict THEN [state EXCEPT ![key] = value] ELSE state]

\* json.load of a file's content
json_load(content) == [raised |-> content.format # "json", data |-> content]

\* Path.exists
exists(files, path) == path \in DOMAIN files

\* open(path, 'w') and write
write_file(files, path, content) == (path :> content) @@ files

\* one executed step of a command: its result and whether it ended with
\* _save_state
Stage(name, rc, saved) == [stage |-> name, rc |-> rc, saved |-> saved]

\* the command returns: main exits with the code
Return(c, code) == [c EXCEPT !.pc = "idle", !.exit_code = code]

\* a step has been executed
Ran(c, name, rc, saved) == [c EXCEPT !.stages_run = Append(@, Stage(name, rc, saved))]

\* the list of patterns a patterns file holds, in the file's order
RECURSIVE patterns_list(_)
patterns_list(pats) ==
    IF pats = {} THEN <<>>
    ELSE LET first == CHOOSE i \in pats : \A j \in pats : i <= j
         IN <<first>> \o patterns_list(pats \ {first})

\* a review that selects every pattern, whatever the answers
review_patterns_all(patterns, answers) == patterns

\* PatternHunterCLI._review_patterns: selected.append(pattern) for every
\* pattern whose question was answered yes, in the order of the questions
review_patterns(patterns, answers) ==
    LET RECURSIVE selected(_)
        selected(i) ==
            IF i = 0 THEN <<>>
            ELSE IF answers[i] THEN Append(selected(i - 1), patterns[i])
                 ELSE selected(i - 1)
    IN selected(Len(patterns))

\* a gate of _review_and_apply has been answered
Answered(c, gate, yes) == [c EXCEPT !.gates = Append(@, [gate |-> gate, yes |-> yes])]

\* _run_generate_tests or _run_propose_updates has been called with patterns
Handed(c, stage, patterns) ==
    [c EXCEPT !.handed = Append(@, [stage |-> stage, patterns |-> patterns])]

\* a step that never treats a result as a failure
stage_failed_never(result) == FALSE

\* 'if result != 0: return result' of cmd_hunt and _review_and_apply
stage_failed(result) == result # 0

\* PatternHunterCLI._ask_yes_no
ask_yes_no(auto, default, response) ==
    IF auto THEN default
    ELSE IF response = "" THEN default ELSE response = "y"

\* input() raises KeyboardInterrupt; auto mode never reads input
interrupted(auto, response) == ~auto /\ response = "^C"

\* when KeyboardInterrupt reaches a step: not at all, while the step runs
\* its child process, or while _save_state writes the state file
Interrupts == {"none", "run", "save"}

\* state.json after an interrupted _save_state: open(..., 'w') has emptied
\* the file and json.dump has not written all of the state
truncated_state_file == StateFile("corrupt", DefaultState)

\* _save_state when signal is what happens during the step
save_state_under(state, signal) ==
    IF signal = "save" THEN truncated_state_file ELSE save_state(state)

\* main returns 130 on KeyboardInterrupt
Interrupt(c) == Return(c, ExitInterrupted)

\* what _run_collect, _run_analyze, _run_generate_tests and
\* _run_propose_updates return: 0 without running anything in a dry run
run_result(dry_run, rc) == IF dry_run THEN 0 ELSE rc

\* files after _run_collect: collect.py writes the signals file when it succeeds
run_collect(files, output_file, dry_run, rc) ==
    IF dry_run \/ rc # 0 THEN files
    ELSE write_file(files, output_file, Content("json", {}, <<>>))

\* files after _run_analyze: analyze.py writes the patterns it found
run_analyze(files, output_file, dry_run, rc, found) ==
    IF dry_run \/ rc # 0 THEN files
    ELSE write_file(files, output_file, Content("json", found, <<>>))

\* defeat tests after _run_generate_tests: generate_tests.py writes the tests
\* that passed the syntax check (all of them when it exits 0)
run_generate_tests(test_files, written, dry_run) ==
    IF dry_run THEN test_files ELSE test_files \cup written

\* what generate_tests.py may have written when it ends with rc
WrittenTests(pats, rc) ==
    IF rc = 0 THEN {pats} ELSE SUBSET pats \ {pats}

\* exit codes of generate_tests.py: 1 when the input holds no pattern
GenerateCodes(pats) == IF pats = {} THEN {1} ELSE SubprocessCodes

\* generate_tests.py main: 'return 0 if invalid_count == 0 else 1'
generate_tests_exit(invalid) == IF invalid = {} THEN 0 ELSE 1

\* how a run of generate_tests.py on pats may end: every test passed the
\* syntax check, or the tests of invalid failed it and write_test_files
\* skipped exactly those
GenerateOutcomes(pats) ==
    UNION { { [rc |-> rc, written |-> written, invalid |-> {}] :
                written \in WrittenTests(pats, rc) } : rc \in GenerateCodes(pats) }
    \cup { [rc |-> generate_tests_exit(invalid), written |-> pats \ invalid,
            invalid |-> invalid] : invalid \in (SUBSET pats) \ {{}} }

\* what propose_updates.py writes to --output: JSON only with --json
propose_updates_main(json_flag, pats) ==
    Content(IF json_flag THEN "json" ELSE "markdown", {}, ProposalsFor(pats))

\* whether the command line of _run_propose_updates holds --json
run_propose_updates_json_flag == FALSE

\* files after _run_propose_updates
run_propose_updates(files, output_file, pats, dry_run, rc) ==
    IF dry_run \/ rc # 0 THEN files
    ELSE write_file(files, output_file,
                    propose_updates_main(run_propose_updates_json_flag, pats))

\* the test directory _run_update_precommit passes
CliTestDir == <<".sdlc", "/", "tests", "/", "patterns">>

\* a command line of _run_update_precommit that never holds --dry-run
update_precommit_never_dry_run(dry_run) == FALSE

\* whether the command line of _run_update_precommit holds --dry-run
update_precommit_dry_run(dry_run) == dry_run

\* _run_update_precommit: update_precommit.py in a process of its own; the
\* exit code and the configuration file afterwards
run_update_precommit(file, dry_run) ==
    LET outcome == update(file, <<>>, CliTestDir,
                          update_precommit_dry_run(dry_run), FALSE, TRUE)
    IN [rc |-> IF outcome.success THEN 0 ELSE 1, file |-> outcome.file]

\* _run_update_memory: update_memory.py --input proposals_file; the exit code
\* and the store file afterwards
run_update_memory(file, content, dry_run) ==
    LET loaded == json_load(content)
    IN IF loaded.raised \/ loaded.data.proposals = <<>>
       THEN [rc |-> 1, file |-> file]
       ELSE LET r == add_learnings(file, loaded.data.proposals, dry_run, FALSE)
            IN [rc |-> IF r.result.errors # <<>> \/ r.result.raised THEN 1 ELSE 0,
                file |-> r.file]

\* _run_update_memory_mock: only prints
run_update_memory_mock(file, props) == [rc |-> 0, file |-> file]

\* the invocation before main has run
NotStarted ==
    [pc |-> "idle", command |-> "hunt", dry_run |-> FALSE, auto |-> FALSE,
     input |-> NoFile, state |-> DefaultState, patterns |-> {},
     patterns_to_process |-> <<>>, proposals_file |-> NoFile, proposals |-> <<>>,
     review |-> <<>>, gates |-> <<>>, handed |-> <<>>, invalid_tests |-> {},
     exit_code |-> 0, stages_run |-> <<>>, runs |-> 0]

\* files the user may name as --input of apply; <<"user", 3>> does not exist
UserFiles ==
    (<<"user", 1>> :> Content("json", {}, <<ProposalFor(1)>>))
        @@ (<<"user", 2>> :> Content("markdown", {}, <<>>))
        @@ (<<"user", 4>> :> Content("json", {}, <<>>))

ApplyInputs == {<<"user", 1>>, <<"user", 2>>, <<"user", 3>>, <<"user", 4>>}

\* the repository before the first invocation
InitialFs ==
    { [state_dir |-> FALSE, state_file |-> StateFile("absent", DefaultState),
       files |-> UserFiles, test_files |-> {}] }
        \cup { [state_dir |-> TRUE, state_file |-> StateFile(kind, DefaultState),
                files |-> UserFiles, test_files |-> {}] :
                    kind \in {"absent", "corrupt", "notdict", "json"} }

\* hook configurations and memory stores the CLI may find
CliConfigFiles ==
    { ConfigFile("absent", NoDoc),
      ConfigFile("doc", Config("null", <<>>)),
      ConfigFile("doc", Config("list",
          << Repo(TRUE, "local", TRUE,
                  << NewPatternHook(get_test_command(CliTestDir)) >>) >>)) }

CliMemoryFiles ==
    { MemoryFile("absent", <<>>),
      MemoryFile("list", << MemoryEntry(1, TRUE, SlugOf[PatternNameOf(1)], "user") >>) }

\* the step a command starts at
FirstStep(command) ==
    CASE command = "hunt" -> "hunt_collect"
      [] command = "collect" -> "cmd_collect"
      [] command = "analyze" -> "cmd_analyze"
      [] command = "generate" -> "cmd_generate"
      [] OTHER -> "cmd_apply"

\* main up to the call of the handler: the arguments are parsed and
\* PatternHunterCLI.__init__ creates the state directory and loads the state
main ==
    /\ cli.pc = "idle"
    /\ cli.runs < MaxRuns
    /\ \E command \in Commands, dry_run \in BOOLEAN, auto \in BOOLEAN,
          input \in ApplyInputs :
        cli' = [NotStarted EXCEPT
                    !.pc = FirstStep(command), !.command = command,
                    !.dry_run = dry_run, !.auto = auto,
                    !.input = IF command = "apply" THEN input ELSE NoFile,
                    !.state = load_state(fs.state_file),
                    !.runs = cli.runs + 1]
    /\ fs' = [fs EXCEPT !.state_dir = TRUE]
    /\ fs_before' = fs
    /\ UNCHANGED <<config_file, memory_file, callVars, stageVars, botVars>>

\* cmd_hunt, step 1: collect signals, then record and save last_collection
cmd_hunt_collect ==
    /\ cli.pc = "hunt_collect"
    /\ \E rc \in SubprocessCodes, signal \in Interrupts :
        LET signals_file == <<"signals", cli.runs>>
            result == run_result(cli.dry_run, rc)
            set == set_state(cli.state, "last_collection", signals_file)
            saved == signal # "run" /\ ~stage_failed(result) /\ ~set.raised
            ran == Ran(cli, "collect", result, saved)
        IN /\ cli' = IF signal = "run" THEN Interrupt(cli)
                     ELSE IF stage_failed(result) THEN Return(ran, result)
                     ELSE IF set.raised THEN Return(ran, ExitError)
                     ELSE IF signal = "save" THEN Interrupt(cli)
                     ELSE [ran EXCEPT !.state = set.state, !.pc = "hunt_analyze"]
           /\ fs' = [fs EXCEPT
                        !.files = run_collect(@, signals_file, cli.dry_run, rc),
                        !.state_file = IF saved THEN save_state_under(set.state, signal)
                                       ELSE @]
    /\ UNCHANGED <<fs_before, config_file, memory_file, callVars, stageVars, botVars>>

\* cmd_hunt, step 2: analyze, record and save last_analysis, then load the
\* patterns (placeholders in a dry run); the hunt ends when there are none
cmd_hunt_analyze ==
    /\ cli.pc = "hunt_analyze"
    /\ \E rc \in SubprocessCodes, n \in 0..MaxPatterns, signal \in Interrupts :
        LET patterns_file == <<"patterns", cli.runs>>
            result == run_result(cli.dry_run, rc)
            set == set_state(cli.state, "last_analysis", patterns_file)
            saved == signal # "run" /\ ~stage_failed(result) /\ ~set.raised
            ran == Ran(cli, "analyze", result, saved)
            files == run_analyze(fs.files, patterns_file, cli.dry_run, rc, 1..n)
            patterns == IF cli.dry_run THEN MockPatterns
                        ELSE json_load(files[patterns_file]).data.patterns
        IN /\ cli' = IF signal = "run" THEN Interrupt(cli)
                     ELSE IF stage_failed(result) THEN Return(ran, result)
                     ELSE IF set.raised THEN Return(ran, ExitError)
                     ELSE IF signal = "save" THEN Interrupt(cli)
                     ELSE IF patterns = {}
                          THEN Return([ran EXCEPT !.state = set.state], 0)
                          ELSE [ran EXCEPT !.state = set.state,
                                           !.patterns = patterns,
                                           !.pc = "hunt_review"]
           /\ fs' = [fs EXCEPT
                        !.files = files,
                        !.state_file = IF saved THEN save_state_under(set.state, signal)
                                       ELSE @]
    /\ UNCHANGED <<fs_before, config_file, memory_file, callVars, stageVars, botVars>>

\* cmd_hunt, step 3: _review_patterns asks about each pattern; the hunt ends
\* when none is selected
cmd_hunt_review ==
    /\ cli.pc = "hunt_review"
    /\ \E response \in [cli.patterns -> Responses] :
        LET patterns == patterns_list(cli.patterns)
            answers == [i \in 1..Len(patterns) |->
                            ask_yes_no(cli.auto, TRUE, response[patterns[i]])]
            selected == review_patterns(patterns, answers)
            ran == [Ran(cli, "review", 0, FALSE) EXCEPT !.review = answers]
        IN cli' = IF \E p \in cli.patterns : interrupted(cli.auto, response[p])
                  THEN Interrupt(cli)
                  ELSE IF selected = <<>> THEN Return(ran, 0)
                  ELSE [ran EXCEPT !.patterns_to_process = selected,
                                   !.pc = "hunt_generate"]
    /\ UNCHANGED <<fs, fs_before, config_file, memory_file, callVars, stageVars, botVars>>

\* cmd_hunt, step 4: generate the defeat tests
cmd_hunt_generate ==
    /\ cli.pc = "hunt_generate"
    /\ \E outcome \in GenerateOutcomes(Range(cli.patterns_to_process)),
          signal \in Interrupts \ {"save"} :
        LET result == run_result(cli.dry_run, outcome.rc)
            handed == Handed(Ran(cli, "generate", result, FALSE),
                             "generate", cli.patterns_to_process)
            ran == [handed EXCEPT !.invalid_tests =
                        IF cli.dry_run THEN {} ELSE outcome.invalid]
        IN /\ cli' = IF signal = "run" THEN Interrupt(cli)
                     ELSE IF stage_failed(result) THEN Return(ran, result)
                     ELSE [ran EXCEPT !.pc = "hunt_propose"]
           /\ fs' = [fs EXCEPT
                        !.test_files = run_generate_tests(@, outcome.written,
                                                          cli.dry_run)]
    /\ UNCHANGED <<fs_before, config_file, memory_file, callVars, stageVars, botVars>>

\* cmd_hunt, step 5: generate the proposals
cmd_hunt_propose ==
    /\ cli.pc = "hunt_propose"
    /\ \E rc \in SubprocessCodes, signal \in Interrupts \ {"save"} :
        LET proposals_file == <<"proposals", cli.runs>>
            result == run_result(cli.dry_run, rc)
            ran == Handed(Ran(cli, "propose", result, FALSE),
                          "propose", cli.patterns_to_process)
        IN /\ cli' = IF signal = "run" THEN Interrupt(cli)
                     ELSE IF stage_failed(result) THEN Return(ran, result)
                     ELSE [ran EXCEPT !.proposals_file = proposals_file,
                                      !.pc = "review_apply"]
           /\ fs' = [fs EXCEPT
                        !.files = run_propose_updates(@, proposals_file,
                                      Range(cli.patterns_to_process),
                                      cli.dry_run, rc)]
    /\ UNCHANGED <<fs_before, config_file, memory_file, callVars, stageVars, botVars>>

\* cmd_apply up to the call of _review_and_apply
cmd_apply ==
    /\ cli.pc = "cmd_apply"
    /\ cli' = IF ~exists(fs.files, cli.input) THEN Return(cli, ExitError)
              ELSE [cli EXCEPT !.proposals_file = cli.input, !.pc = "review_apply"]
    /\ UNCHANGED <<fs, fs_before, config_file, memory_file, callVars, stageVars, botVars>>

\* _review_and_apply returns 0: cmd_apply returns it, cmd_hunt goes on
Applied(c) ==
    IF c.command = "hunt" THEN [c EXCEPT !.pc = "hunt_complete"] ELSE Return(c, 0)

\* _review_and_apply up to the first prompt: the proposals are loaded
\* (placeholders in a dry run); json.load raises on a file that is no JSON
review_and_apply ==
    /\ cli.pc = "review_apply"
    /\ LET loaded == IF cli.dry_run
                     THEN [raised |-> FALSE, data |-> Content("json", {}, MockProposals)]
                     ELSE json_load(fs.files[cli.proposals_file])
           ran == Ran(cli, "review_apply", 0, FALSE)
       IN cli' = IF loaded.raised THEN Return(cli, ExitError)
                 ELSE IF loaded.data.proposals = <<>> THEN Applied(ran)
                 ELSE [ran EXCEPT !.proposals = loaded.data.proposals,
                                  !.pc = "gate_precommit"]
    /\ UNCHANGED <<fs, fs_before, config_file, memory_file, callVars, stageVars, botVars>>

\* _review_and_apply, first gate: update the pre-commit hooks when the
\* answer is yes
gate_precommit ==
    /\ cli.pc = "gate_precommit"
    /\ \E response \in Responses, r \in {run_update_precommit(config_file, cli.dry_run)} :
        LET yes == ask_yes_no(cli.auto, TRUE, response)
            asked == Answered(cli, "precommit", yes)
            ran == Ran(asked, "update_precommit", r.rc, FALSE)
        IN /\ cli' = IF interrupted(cli.auto, response)
                     THEN Interrupt(cli)
                     ELSE IF ~yes THEN [asked EXCEPT !.pc = "gate_memory"]
                     ELSE IF stage_failed(r.rc) THEN Return(ran, r.rc)
                     ELSE [ran EXCEPT !.pc = "gate_memory"]
           /\ config_file' = IF yes /\ ~interrupted(cli.auto, response)
                             THEN r.file ELSE config_file
    /\ UNCHANGED <<fs, fs_before, memory_file, callVars, stageVars, botVars>>

\* _review_and_apply, second gate: update the agent memory when the answer
\* is yes; a dry run reports the placeholders instead
gate_memory ==
    /\ cli.pc = "gate_memory"
    /\ \E response \in Responses,
          r \in {IF cli.dry_run THEN run_update_memory_mock(memory_file, cli.proposals)
                 ELSE run_update_memory(memory_file, fs.files[cli.proposals_file],
                                        cli.dry_run)} :
        LET yes == ask_yes_no(cli.auto, TRUE, response)
            asked == Answered(cli, "memory", yes)
            ran == Ran(asked, "update_memory", r.rc, FALSE)
        IN /\ cli' = IF interrupted(cli.auto, response)
                     THEN Interrupt(cli)
                     ELSE IF ~yes THEN Applied(asked)
                     ELSE IF stage_failed(r.rc) THEN Return(ran, r.rc)
                     ELSE Applied(ran)
           /\ memory_file' = IF yes /\ ~interrupted(cli.auto, response)
                             THEN r.file ELSE memory_file
    /\ UNCHANGED <<fs, fs_before, config_file, callVars, stageVars, botVars>>

\* cmd_hunt, the end: record and save last_run
cmd_hunt_complete ==
    /\ cli.pc = "hunt_complete"
    /\ \E signal \in Interrupts \ {"run"} :
       LET set == set_state(cli.state, "last_run", cli.runs)
       IN /\ cli' = IF set.raised THEN Return(cli, ExitError)
                    ELSE IF signal = "save" THEN Interrupt(cli)
                    ELSE Return([Ran(cli, "complete", 0, TRUE)
                                    EXCEPT !.state = set.state], 0)
          /\ fs' = [fs EXCEPT
                       !.state_file = IF set.raised THEN @
                                      ELSE save_state_under(set.state, signal)]
    /\ UNCHANGED <<fs_before, config_file, memory_file, callVars, stageVars, botVars>>

\* cmd_collect
cmd_collect ==
    /\ cli.pc = "cmd_collect"
    /\ \E rc \in SubprocessCodes, signal \in Interrupts :
        LET output_file == <<"signals", cli.runs>>
            result == run_result(cli.dry_run, rc)
            set == set_state(cli.state, "last_collection", output_file)
            saved == signal # "run" /\ result = 0 /\ ~set.raised
            ran == Ran(cli, "collect", result, saved)
        IN /\ cli' = IF signal = "run" THEN Interrupt(cli)
                     ELSE IF result # 0 THEN Return(ran, result)
                     ELSE IF set.raised THEN Return(ran, ExitError)
                     ELSE IF signal = "save" THEN Interrupt(cli)
                     ELSE Return([ran EXCEPT !.state = set.state], result)
           /\ fs' = [fs EXCEPT
                        !.files = run_collect(@, output_file, cli.dry_run, rc),
                        !.state_file = IF saved THEN save_state_under(set.state, signal)
                                       ELSE @]
    /\ UNCHANGED <<fs_before, config_file, memory_file, callVars, stageVars, botVars>>

\* cmd_analyze, resuming from state['last_collection']
cmd_analyze ==
    /\ cli.pc = "cmd_analyze"
    /\ \E rc \in SubprocessCodes, n \in 0..MaxPatterns, signal \in Interrupts :
        LET input_file == cli.state.last_collection
            usable == cli.state.is_dict /\ input_file # NoFile
                        /\ exists(fs.files, input_file)
            output_file == <<"patterns", cli.runs>>
            result == run_result(cli.dry_run, rc)
            set == set_state(cli.state, "last_analysis", output_file)
            saved == signal # "run" /\ usable /\ result = 0
            ran == Ran(cli, "analyze", result, saved)
        IN /\ cli' = IF ~usable THEN Return(cli, ExitError)
                     ELSE IF signal = "run" THEN Interrupt(cli)
                     ELSE IF result # 0 THEN Return(ran, result)
                     ELSE IF signal = "save" THEN Interrupt(cli)
                     ELSE Return([ran EXCEPT !.state = set.state], result)
           /\ fs' = IF ~usable THEN fs
                    ELSE [fs EXCEPT
                            !.files = run_analyze(@, output_file, cli.dry_run, rc, 1..n),
                            !.state_file = IF saved THEN save_state_under(set.state, signal)
                                       ELSE @]
    /\ UNCHANGED <<fs_before, config_file, memory_file, callVars, stageVars, botVars>>

\* cmd_generate, resuming from state['last_analysis'], without --pattern
cmd_generate ==
    /\ cli.pc = "cmd_generate"
    /\ LET input_file == cli.state.last_analysis
           usable == cli.state.is_dict /\ input_file # NoFile
                        /\ exists(fs.files, input_file)
           patterns == IF usable THEN json_load(fs.files[input_file]).data.patterns
                       ELSE {}
       IN \E outcome \in GenerateOutcomes(patterns),
             signal \in Interrupts \ {"save"} :
            LET result == run_result(cli.dry_run, outcome.rc)
            IN /\ cli' = IF ~usable THEN Return(cli, ExitError)
                         ELSE IF signal = "run" THEN Interrupt(cli)
                         ELSE Return(Ran(cli, "generate", result, FALSE), result)
               /\ fs' = IF ~usable THEN fs
                        ELSE [fs EXCEPT !.test_files =
                                run_generate_tests(@, outcome.written, cli.dry_run)]
    /\ UNCHANGED <<fs_before, config_file, memory_file, callVars, stageVars, botVars>>

CliNext ==
    \/ main
    \/ cmd_hunt_collect
    \/ cmd_hunt_analyze
    \/ cmd_hunt_review
    \/ cmd_hunt_generate
    \/ cmd_hunt_propose
    \/ review_and_apply
    \/ gate_precommit
    \/ gate_memory
    \/ cmd_hunt_complete
    \/ cmd_collect
    \/ cmd_analyze
    \/ cmd_generate
    \/ cmd_apply

(***************************************************************************)
(* Defeat test generator (generate_tests.py).  Test code is a sequence of  *)
(* tokens: the fixed pieces of a template or of an oracle response are one *)
(* token each, and the characters of a name put into a template are one    *)
(* token each.                                                             *)
(***************************************************************************)
\* the three double quotes that open and close a docstring
TripleQuote == "\"\"\""

\* the line of three backquotes that opens or closes a code block of a
\* response, bare and with the language named
Fence == "<fence>"
FencePython == "<fence>python"

\* pattern names a batch may hold: the names above, and a name with a
\* double quote in it
TestPatternNames == PatternNames \cup { <<"a", "\"">> }

\* a pattern of the input file
TestPattern(name) == [name |-> name, description |-> <<"d">>]

TestPatterns == {TestPattern(name) : name \in TestPatternNames}

\* TestGenerator._generate_pattern_slug
generate_test_slug(pattern_name) ==
    sub_underscores(strip_underscore(sub_non_alnum(lower(pattern_name), FALSE)), FALSE)

\* the slug of every name of TestPatternNames, computed once
TestSlugOf == [n \in TestPatternNames |-> generate_test_slug(n)]

\* key in pattern_slug: key occurs in the slug as a substring
IsSubstring(key, slug) ==
    \E i \in 1..(Len(slug) - Len(key) + 1) : SubSeq(slug, i, i + Len(key) - 1) = key

\* the keys of MOCK_TESTS other than 'default'
MockKeys ==
    << <<"s", "i", "l", "e", "n", "t", "_", "f", "a", "l", "l", "b", "a", "c", "k">>,
       <<"m", "i", "s", "s", "i", "n", "g", "_", "e", "r", "r", "o", "r", "_",
         "c", "o", "n", "t", "e", "x", "t">> >>

\* MOCK_TESTS[key] for a key other than 'default': the template names
\* neither the pattern nor its slug
KeyedTemplate(k) ==
    <<TripleQuote, "Defeat Test: ", "Pattern: ">> \o MockKeys[k]
        \o <<TripleQuote, "import re", "def test_no_">> \o MockKeys[k]
        \o <<"():", "pass">>

\* MOCK_TESTS['default'] with pattern_title, pattern_slug and description
\* put in by str.format
DefaultTemplate(pattern_title, pattern_slug, description) ==
    <<TripleQuote, "Defeat Test: ">> \o pattern_title
        \o <<"Pattern: ">> \o pattern_slug
        \o <<"Description: ">> \o description
        \o <<TripleQuote, "import re", "def test_no_">> \o pattern_slug
        \o <<"():", TripleQuote, "Detect and prevent ">> \o pattern_title
        \o <<" pattern.", TripleQuote, "assert not violations, (", "f\"">>
        \o pattern_title \o <<" pattern found:", "\"", ")">>

\* TestGenerator._get_mock_template
get_mock_template(pattern_slug, pattern) ==
    LET matches == {k \in 1..Len(MockKeys) :
                        \/ MockKeys[k] = pattern_slug
                        \/ IsSubstring(MockKeys[k], pattern_slug)}
    IN IF matches # {}
       THEN KeyedTemplate(FirstIndex(matches))
       ELSE DefaultTemplate(pattern.name, pattern_slug, pattern.description)

\* tokens Python accepts between string literals
CodeTokens ==
    {"import re", "def test_no_", "():", "pass", "assert not violations, (", ")", "\n", "_"}
        \cup AlnumLower \cup {"i", "l", "b", "c", "m", "x"}

\* ast.parse, as far as string literals and foreign text go: mode is where
\* the scan stands, in code, in a docstring or in a one-line string
RECURSIVE ast_parse(_, _)
ast_parse(code, mode) ==
    IF code = <<>> THEN mode = "code"
    ELSE CASE mode = "code" ->
                IF Head(code) = TripleQuote THEN ast_parse(Tail(code), "doc")
                ELSE IF Head(code) \in {"f\"", "\""} THEN ast_parse(Tail(code), "str")
                ELSE Head(code) \in CodeTokens /\ ast_parse(Tail(code), "code")
           [] mode = "doc" ->
                ast_parse(Tail(code), IF Head(code) = TripleQuote THEN "code" ELSE "doc")
           [] OTHER ->
                IF Head(code) \in {"\"", TripleQuote} THEN ast_parse(Tail(code), "code")
                ELSE Head(code) # "\n" /\ ast_parse(Tail(code), "str")

\* TestGenerator._validate_python_syntax
validate_python_syntax(code) == ast_parse(code, "code")

\* str.strip() of a response: line ends at either end go
RECURSIVE strip(_)
strip(s) ==
    IF s # <<>> /\ Head(s) = "\n" THEN strip(Tail(s))
    ELSE IF s # <<>> /\ s[Len(s)] = "\n" THEN strip(SubSeq(s, 1, Len(s) - 1))
    ELSE s

\* positions of the line ends of a response
LineEnds(s) == {i \in 1..Len(s) : s[i] = "\n"}

\* TestGenerator._clean_claude_response
clean_claude_response(response) ==
    LET \* '\n'.join(lines[1:])
        DropFirstLine(s) ==
            IF LineEnds(s) = {} THEN <<>>
            ELSE SubSeq(s, FirstIndex(LineEnds(s)) + 1, Len(s))
        \* lines[:-1] when the last line is the closing fence
        DropClosingFence(s) ==
            IF s = <<>> THEN s
            ELSE IF LineEnds(s) = {}
                 THEN IF s = <<Fence>> THEN <<>> ELSE s
                 ELSE IF SubSeq(s, Max(LineEnds(s)) + 1, Len(s)) = <<Fence>>
                      THEN SubSeq(s, 1, Max(LineEnds(s)) - 1)
                      ELSE s
        Unfence(s) ==
            IF s # <<>> /\ Head(s) \in {Fence, FencePython}
            THEN DropClosingFence(DropFirstLine(s))
            ELSE s
    IN strip(Unfence(strip(response)))

\* what the oracle answers to a test generation prompt; "failed" is a call
\* that raised (time-out or non-zero exit)
OracleTestResponses ==
    { [failed |-> TRUE, response |-> <<>>],
      [failed |-> FALSE,
       response |-> <<FencePython, "\n", "def test_no_", "x", "():", "pass", "\n", Fence>>],
      [failed |-> FALSE, response |-> <<"def test_no_", "x", "():", "pass">>],
      [failed |-> FALSE,
       response |-> <<FencePython, "\n", "def test_no_", "(", "pass", "\n", Fence>>],
      [failed |-> FALSE,
       response |-> <<"Here is the test:", "\n", FencePython, "\n", "pass", "\n", Fence>>] }

\* TestGenerator.generate_test
generate_test(pattern, mock, oracle) ==
    LET Result(pattern_slug, test_code) ==
            [pattern_name |-> pattern.name, pattern_slug |-> pattern_slug,
             test_code |-> test_code, is_valid |-> validate_python_syntax(test_code),
             filename |-> <<"test_">> \o pattern_slug \o <<".py">>]
        Generate(pattern_slug) ==
            Result(pattern_slug,
                   IF mock \/ oracle.failed
                   THEN get_mock_template(pattern_slug, pattern)
                   ELSE clean_claude_response(oracle.response))
    IN Generate(TestSlugOf[pattern.name])

\* TestGenerator.generate_all_tests
generate_all_tests(patterns, mock, oracles) ==
    [i \in 1..Len(patterns) |-> generate_test(patterns[i], mock, oracles[i])]

\* a write_test_files loop that skips nothing
skip_result_never(result) == FALSE

\* write_test_files: the result is skipped when its validation failed
skip_result(result) == ~result.is_valid

\* TestGenerator.write_test_files from result k on: the directory, as a
\* function from file names to content, and written_files
RECURSIVE write_test_files(_, _, _, _)
write_test_files(results, k, output_dir, written_files) ==
    IF k > Len(results)
    THEN [output_dir |-> output_dir, written_files |-> written_files]
    ELSE IF skip_result(results[k])
         THEN write_test_files(results, k + 1, output_dir, written_files)
         ELSE write_test_files(results, k + 1,
                               (results[k].filename :> results[k].test_code) @@ output_dir,
                               Append(written_files, results[k].filename))

\* what the output directory may hold before a run: nothing, a test
\* written by hand, a test an earlier run wrote, or a file that does not
\* parse
InitialOutputDirs ==
    { <<>>,
      (<<"test_", "s", "_", "f", ".py">> :> <<"import re">>),
      (<<"test_", "g", "1", ".py">> :> <<"def test_no_", "x", "():", "pass">>),
      (<<"test_", "a", ".py">> :> <<"(">>) }

\* the oracle calls generate_test makes for one pattern: none in mock mode,
\* else the one call of its try block
test_oracle_calls(mock) == IF mock THEN 0 ELSE 1

\* the record of one run of generate_tests.py
TestRun(mock, dry_run, patterns, oracles, results, before, written, exit_code) ==
    [called |-> TRUE, mock |-> mock, dry_run |-> dry_run, patterns |-> patterns,
     oracles |-> oracles,
     oracle_calls |-> [i \in 1..Len(patterns) |-> test_oracle_calls(mock)],
     results |-> results, before |-> before.output_dir,
     output_dir |-> written.output_dir, written_files |-> written.written_files,
     exit_code |-> exit_code]

\* generate_tests.main without --validate-only: the run on a patterns file
GenerateTests ==
    /\ ~gen.called
    /\ \E mock \in BOOLEAN, dry_run \in BOOLEAN, patterns \in SeqsUpTo(TestPatterns, MaxBatch) :
        \E oracles \in [1..Len(patterns) -> IF mock THEN {[failed |-> TRUE, response |-> <<>>]}
                                            ELSE OracleTestResponses] :
            \E results \in {IF patterns = <<>> THEN <<>>
                            ELSE generate_all_tests(patterns, mock, oracles)} :
                \E written \in {IF dry_run \/ patterns = <<>>
                                THEN [output_dir |-> gen.output_dir, written_files |-> <<>>]
                                ELSE write_test_files(results, 1, gen.output_dir, <<>>)} :
                    gen' = TestRun(mock, dry_run, patterns, oracles, results, gen, written,
                                   IF patterns # <<>> /\ \A i \in 1..Len(results) : results[i].is_valid
                                   THEN 0 ELSE 1)
    /\ UNCHANGED <<memVars, hookVars, cliVars, scorer, composer, reader, prompt, collector, botVars>>

TestsNext == GenerateTests

(***************************************************************************)
(* Pattern scorer (analyze.py).  A request goes through the oracle calls   *)
(* of _call_claude_with_retry one at a time; scorer.pc is where it stands. *)
(***************************************************************************)
\* PatternAnalyzer.max_retries and PatternAnalyzer.retry_delay (seconds)
max_retries == 3
retry_delay == 2

\* number of patterns main returns when --top-n is not given
DefaultTopN == 5

\* a value of a JSON object: the key is missing, null, or a string
Field(kind, value) == [kind |-> kind, value |-> value]

NoField == Field("missing", <<>>)
NullField == Field("null", <<>>)
Str(value) == Field("str", value)

\* values the oracle may give for 'impact' and 'frequency'
ImpactValues ==
    { NoField, NullField,
      Str(<<"h", "i", "g", "h">>), Str(<<"H", "I", "G", "H">>),
      Str(<<"m", "e", "d", "i", "u", "m">>), Str(<<"l", "o", "w">>),
      Str(<<"c", "r", "i", "t", "i", "c", "a", "l">>) }

FrequencyValues ==
    { NoField,
      Str(<<"d", "a", "i", "l", "y">>), Str(<<"W", "e", "e", "k", "l", "y">>),
      Str(<<"w", "e", "e", "k", "l", "y">>),
      Str(<<"p", "e", "r", "-", "f", "e", "a", "t", "u", "r", "e">>),
      Str(<<"m", "o", "n", "t", "h", "l", "y">>), Str(<<"r", "a", "r", "e", "l", "y">>) }

\* a pattern of the oracle's document; has_score is whether the oracle
\* supplied a score of its own
ScoredPattern(name, impact, frequency, has_score, score) ==
    [name |-> name, impact |-> impact, frequency |-> frequency,
     has_score |-> has_score, score |-> score]

\* the score the oracle supplies when it supplies one
OracleScore == 99

OraclePatterns ==
    { ScoredPattern(1, impact, frequency, FALSE, 0) :
        impact \in ImpactValues, frequency \in FrequencyValues }
    \cup { ScoredPattern(1, Str(<<"l", "o", "w">>), frequency, TRUE, OracleScore) :
        frequency \in {NoField, Str(<<"d", "a", "i", "l", "y">>)} }

\* patterns of the documents that hold more than one
RankedPatterns ==
    { ScoredPattern(name, impact, Str(<<"w", "e", "e", "k", "l", "y">>), FALSE, 0) :
        name \in 1..2, impact \in {Str(<<"h", "i", "g", "h">>), Str(<<"l", "o", "w">>)} }

OraclePatternLists ==
    {<<>>} \cup {<<p>> : p \in OraclePatterns}
        \cup UNION {[1..k -> RankedPatterns] : k \in 2..MaxScored}

\* MOCK_PATTERNS['patterns']
MOCK_PATTERNS ==
    << ScoredPattern(1, Str(<<"h", "i", "g", "h">>), Str(<<"w", "e", "e", "k", "l", "y">>),
                     FALSE, 0),
       ScoredPattern(2, Str(<<"m", "e", "d", "i", "u", "m">>),
                     Str(<<"p", "e", "r", "-", "f", "e", "a", "t", "u", "r", "e">>), FALSE, 0),
       ScoredPattern(3, Str(<<"m", "e", "d", "i", "u", "m">>),
                     Str(<<"m", "o", "n", "t", "h", "l", "y">>), FALSE, 0) >>

\* a JSON document of the oracle: an object whose 'patterns' is missing,
\* null, a list of objects or a list of values that are no objects
\* ("scalars"), an array, or text that is no JSON
Document(kind, patterns_kind, patterns) ==
    [kind |-> kind, patterns_kind |-> patterns_kind, patterns |-> patterns]

OracleDocuments ==
    { Document("object", "list", patterns) : patterns \in OraclePatternLists }
        \cup { Document("object", "missing", <<>>), Document("object", "null", <<>>),
               Document("object", "scalars", <<>>),
               Document("array", "missing", <<>>), Document("invalid", "missing", <<>>) }

\* a response of the oracle: the document alone ("plain"), between a fence
\* line and a closing fence ("fenced"), after a fence line with no closing
\* fence ("unclosed"), after a line of prose ("prose"), or a fence line and
\* nothing else ("bare_fence")
Response(shape, doc) == [shape |-> shape, doc |-> doc]

OracleResponses ==
    { Response(shape, doc) : shape \in {"plain", "fenced"}, doc \in OracleDocuments }
        \cup { Response(shape, Document("object", "list", <<>>)) :
                shape \in {"unclosed", "prose", "bare_fence"} }

\* PatternAnalyzer._parse_claude_response: raised, or the parsed document
parse_claude_response(response) ==
    CASE response.shape = "bare_fence" -> [raised |-> TRUE, parsed |-> response.doc]
      [] response.shape = "prose" -> [raised |-> TRUE, parsed |-> response.doc]
      [] OTHER -> [raised |-> response.doc.kind = "invalid", parsed |-> response.doc]

\* a scoring that keeps the score the oracle supplied
calculate_pattern_score_keeps_supplied(pattern) ==
    [raised |-> FALSE, score |-> IF pattern.has_score THEN pattern.score ELSE 1]

\* PatternAnalyzer._calculate_pattern_score: the score, or raised when
\* .lower() is called on a value that is no string
calculate_pattern_score(pattern) ==
    LET impact_scores(impact) ==
            CASE impact = <<"h", "i", "g", "h">> -> 3
              [] impact = <<"m", "e", "d", "i", "u", "m">> -> 2
              [] impact = <<"l", "o", "w">> -> 1
              [] OTHER -> 1
        frequency_scores(frequency) ==
            CASE frequency = <<"d", "a", "i", "l", "y">> -> 4
              [] frequency = <<"w", "e", "e", "k", "l", "y">> -> 3
              [] frequency = <<"p", "e", "r", "-", "f", "e", "a", "t", "u", "r", "e">> -> 2
              [] frequency = <<"m", "o", "n", "t", "h", "l", "y">> -> 1
              [] OTHER -> 1
        \* pattern.get(key, default)
        Get(field, default) == IF field.kind = "missing" THEN Str(default) ELSE field
        Score(impact, frequency) ==
            IF impact.kind = "null" \/ frequency.kind = "null"
            THEN [raised |-> TRUE, score |-> 0]
            ELSE [raised |-> FALSE,
                  score |-> impact_scores(lower(impact.value))
                                * frequency_scores(lower(frequency.value))]
    IN Score(Get(pattern.impact, <<"l", "o", "w">>),
             Get(pattern.frequency, <<"m", "o", "n", "t", "h", "l", "y">>))

\* a sort that puts p before the patterns of equal score
RECURSIVE insert_before_equal(_, _)
insert_before_equal(p, sorted) ==
    IF sorted = <<>> THEN <<p>>
    ELSE IF Head(sorted).score > p.score
         THEN <<Head(sorted)>> \o insert_before_equal(p, Tail(sorted))
         ELSE <<p>> \o sorted

\* patterns.sort(key=lambda p: p['score'], reverse=True): p is put behind
\* every pattern of the sorted list whose score is not smaller
RECURSIVE insert_by_score(_, _)
insert_by_score(p, sorted) ==
    IF sorted = <<>> THEN <<p>>
    ELSE IF Head(sorted).score >= p.score
         THEN <<Head(sorted)>> \o insert_by_score(p, Tail(sorted))
         ELSE <<p>> \o sorted

RECURSIVE sort_by_score(_, _)
sort_by_score(patterns, sorted) ==
    IF patterns = <<>> THEN sorted
    ELSE sort_by_score(Tail(patterns), insert_by_score(Head(patterns), sorted))

\* a fallback that is the mock pattern list
fallback_to_mock_patterns == MOCK_PATTERNS

\* analyze, 'Falling back to empty pattern list'
fallback_patterns == <<>>

\* analyze from 'Calculate scores and rank patterns' on: raised when a
\* score cannot be calculated
rank_patterns(patterns) ==
    LET scores == [i \in 1..Len(patterns) |-> calculate_pattern_score(patterns[i])]
        scored == [i \in 1..Len(patterns) |->
                    [patterns[i] EXCEPT !.has_score = TRUE, !.score = scores[i].score]]
    IN IF \E i \in 1..Len(patterns) : scores[i].raised
       THEN [raised |-> TRUE, patterns |-> <<>>]
       ELSE [raised |-> FALSE, patterns |-> sort_by_score(scored, <<>>)]

\* PatternAnalyzer.analyze once the oracle request is over: call_raised is
\* whether _call_claude_with_retry raised, response what it returned.  The
\* try block ends with len(patterns), which raises on a null 'patterns';
\* pattern.get of _calculate_pattern_score, called after the try block,
\* raises on a pattern that is no object.
analyze(mock, call_raised, response) ==
    LET Parsed(p) ==
            IF p.raised \/ p.parsed.kind = "array" \/ p.parsed.patterns_kind = "null"
            THEN rank_patterns(fallback_patterns)
            ELSE IF p.parsed.patterns_kind = "missing"
                 THEN rank_patterns(<<>>)
                 ELSE IF p.parsed.patterns_kind = "scalars"
                      THEN [raised |-> TRUE, patterns |-> <<>>]
                      ELSE rank_patterns(p.parsed.patterns)
    IN IF mock THEN rank_patterns(MOCK_PATTERNS)
       ELSE IF call_raised THEN rank_patterns(fallback_patterns)
       ELSE Parsed(parse_claude_response(response))

\* main after analyze: the patterns it returns and its exit code; the
\* summary reads pattern['impact'] of the first patterns returned
analyze_main(analysis, top_n) ==
    LET Returned(patterns) ==
            [raised |-> FALSE, patterns |-> patterns,
             exit_code |-> IF \E i \in 1..Len(patterns) :
                                i <= DefaultTopN /\ patterns[i].impact.kind = "missing"
                           THEN 1 ELSE 0]
    IN IF analysis.raised THEN [raised |-> TRUE, patterns |-> <<>>, exit_code |-> 1]
       ELSE Returned(SubSeq(analysis.patterns, 1,
                            IF Len(analysis.patterns) < top_n
                            THEN Len(analysis.patterns) ELSE top_n))

\* a wait that does not grow with the attempt
wait_time_constant(attempt) == retry_delay

\* _call_claude_with_retry: wait_time after the failed attempt (counted from 0)
wait_time(attempt) == retry_delay * (attempt + 1)

\* a request: its arguments, the oracle calls made so far (the outcome of
\* each), the waits slept, and the position
Request(mock, top_n) ==
    [called |-> TRUE, pc |-> "start", mock |-> mock, top_n |-> top_n,
     attempt |-> 0, calls |-> <<>>, waits |-> <<>>,
     call_raised |-> FALSE, returned_at |-> 0,
     response |-> Response("plain", Document("object", "missing", <<>>)),
     raised |-> FALSE, patterns |-> <<>>, exit_code |-> 0]

\* analyze up to the oracle request: mock mode makes none
analyze_begin ==
    /\ scorer.pc = "start"
    /\ scorer' = [scorer EXCEPT !.pc = IF scorer.mock THEN "rank" ELSE "call"]
    /\ UNCHANGED <<memVars, hookVars, cliVars, gen, composer, reader, prompt, collector, botVars>>

\* one attempt of the loop of _call_claude_with_retry: the oracle answers,
\* times out or exits non-zero
call_claude ==
    /\ scorer.pc = "call"
    /\ scorer.attempt < max_retries
    /\ \E outcome \in {"ok", "timeout", "exit_nonzero"} :
        IF outcome = "ok"
        THEN \E response \in OracleResponses :
                scorer' = [scorer EXCEPT !.calls = Append(@, outcome),
                                         !.response = response,
                                         !.returned_at = scorer.attempt + 1,
                                         !.pc = "rank"]
        ELSE scorer' = [scorer EXCEPT !.calls = Append(@, outcome),
                                      !.pc = IF scorer.attempt < max_retries - 1
                                             THEN "sleep" ELSE "raise"]
    /\ UNCHANGED <<memVars, hookVars, cliVars, gen, composer, reader, prompt, collector, botVars>>

\* time.sleep(wait_time), then the next attempt
retry_sleep ==
    /\ scorer.pc = "sleep"
    /\ scorer' = [scorer EXCEPT !.waits = Append(@, wait_time(scorer.attempt)),
                                !.attempt = @ + 1,
                                !.pc = "call"]
    /\ UNCHANGED <<memVars, hookVars, cliVars, gen, composer, reader, prompt, collector, botVars>>

\* the raise after the loop of _call_claude_with_retry
retry_raise ==
    /\ scorer.pc = "raise"
    /\ scorer' = [scorer EXCEPT !.call_raised = TRUE, !.pc = "rank"]
    /\ UNCHANGED <<memVars, hookVars, cliVars, gen, composer, reader, prompt, collector, botVars>>

\* the rest of analyze and of main
analyze_finish ==
    /\ scorer.pc = "rank"
    /\ \E r \in {analyze_main(analyze(scorer.mock, scorer.call_raised, scorer.response),
                              scorer.top_n)} :
        scorer' = [scorer EXCEPT !.pc = "done", !.raised = r.raised,
                                 !.patterns = r.patterns, !.exit_code = r.exit_code]
    /\ UNCHANGED <<memVars, hookVars, cliVars, gen, composer, reader, prompt, collector, botVars>>

ScorerNext == analyze_begin \/ call_claude \/ retry_sleep \/ retry_raise \/ analyze_finish

(***************************************************************************)
(* Proposal composer (propose_updates.py).                                 *)
(***************************************************************************)
\* AGENT_TYPE_RULES, in the order of declaration
AGENT_TYPE_RULES ==
    <<
      [keywords |-> << <<"c", "o", "d", "e">>,
                       <<"f", "u", "n", "c", "t", "i", "o", "n">>,
                       <<"v", "a", "r", "i", "a", "b", "l", "e">>,
                       <<"e", "r", "r", "o", "r", " ", "h", "a", "n", "d", "l", "i", "n", "g">>,
                       <<"e", "x", "c", "e", "p", "t", "i", "o", "n">>,
                       <<"v", "a", "l", "i", "d", "a", "t", "i", "o", "n">>,
                       <<"f", "a", "l", "l", "b", "a", "c", "k">>,
                       <<"a", "p", "i">>,
                       <<"d", "a", "t", "a", "b", "a", "s", "e">>,
                       <<"t", "e", "s", "t", "i", "n", "g">> >>,
       agent |-> "Dev", priority |-> 1],
      [keywords |-> << <<"d", "o", "c", "u", "m", "e", "n", "t", "a", "t", "i", "o", "n">>,
                       <<"c", "o", "m", "m", "e", "n", "t">>,
                       <<"r", "e", "a", "d", "m", "e">>,
                       <<"d", "o", "c", "s", "t", "r", "i", "n", "g">>,
                       <<"m", "a", "r", "k", "d", "o", "w", "n">>,
                       <<"s", "p", "e", "c">>,
                       <<"r", "e", "q", "u", "i", "r", "e", "m", "e", "n", "t", "s">>,
                       <<"a", "n", "a", "l", "y", "s", "i", "s">> >>,
       agent |-> "Research", priority |-> 2],
      [keywords |-> << <<"w", "o", "r", "k", "f", "l", "o", "w">>,
                       <<"p", "r", "o", "c", "e", "s", "s">>,
                       <<"c", "o", "o", "r", "d", "i", "n", "a", "t", "i", "o", "n">>,
                       <<"p", "l", "a", "n", "n", "i", "n", "g">>,
                       <<"r", "o", "a", "d", "m", "a", "p">>,
                       <<"p", "r", "i", "o", "r", "i", "t", "i", "z", "a", "t", "i", "o", "n">>,
                       <<"s", "c", "h", "e", "d", "u", "l", "i", "n", "g">>,
                       <<"h", "a", "n", "d", "o", "f", "f">> >>,
       agent |-> "Project-Manager", priority |-> 2],
      [keywords |-> << <<"r", "e", "v", "i", "e", "w">>,
                       <<"q", "u", "a", "l", "i", "t", "y">>,
                       <<"m", "e", "r", "g", "e">>,
                       <<"p", "r">>,
                       <<"p", "u", "l", "l", " ", "r", "e", "q", "u", "e", "s", "t">>,
                       <<"a", "p", "p", "r", "o", "v", "a", "l">>,
                       <<"s", "t", "a", "n", "d", "a", "r", "d", "s">> >>,
       agent |-> "Code-Reviewer", priority |-> 3],
      [keywords |-> << <<"r", "e", "l", "e", "a", "s", "e">>,
                       <<"d", "e", "p", "l", "o", "y">>,
                       <<"v", "e", "r", "s", "i", "o", "n">>,
                       <<"c", "h", "a", "n", "g", "e", "l", "o", "g">>,
                       <<"r", "o", "l", "l", "b", "a", "c", "k">>,
                       <<"p", "r", "o", "d", "u", "c", "t", "i", "o", "n">> >>,
       agent |-> "Release-Manager", priority |-> 3]
    >>

\* the agent names in ascending order of Python's string comparison, by
\* which scores.sort orders tuples of equal score
AgentsAscending ==
    <<"Code-Reviewer", "Dev", "Project-Manager", "Release-Manager", "Research">>

\* the keys of MOCK_PROPOSALS
MockProposalNames ==
    { <<"S", "i", "l", "e", "n", "t", " ", "F", "a", "l", "l", "b", "a", "c", "k", " ", "P", "a", "t", "t", "e", "r", "n">>,
      <<"M", "i", "s", "s", "i", "n", "g", " ", "E", "r", "r", "o", "r", " ", "C", "o", "n", "t", "e", "x", "t">>,
      <<"I", "n", "c", "o", "n", "s", "i", "s", "t", "e", "n", "t", " ", "F", "i", "l", "e", " ", "P", "a", "t", "h", " ", "H", "a", "n", "d", "l", "i", "n", "g">> }

\* a pattern of the analysis file; score stands for the pattern's score
ComposerPattern(name, description, score) ==
    [name |-> name, description |-> description, score |-> score]

ComposerPatterns ==
    { ComposerPattern(Str(<<"r", "e", "v", "i", "e", "w", " ", "r", "e", "l", "e", "a", "s", "e">>),
                      Str(<<>>), 1),
      ComposerPattern(Str(<<"c", "o", "d", "e">>),
                      Str(<<>>), 2),
      ComposerPattern(Str(<<"w", "o", "r", "k", "f", "l", "o", "w", " ", "d", "o", "c", "u", "m", "e", "n", "t", "a", "t", "i", "o", "n">>),
                      Str(<<>>), 3),
      ComposerPattern(Str(<<"n", "o", "t", "h", "i", "n", "g">>),
                      Str(<<>>), 4),
      ComposerPattern(Str(<<"S", "i", "l", "e", "n", "t", " ", "F", "a", "l", "l", "b", "a", "c", "k", " ", "P", "a", "t", "t", "e", "r", "n">>),
                      Str(<<>>), 5),
      ComposerPattern(Str(<<"S", "i", "l", "e", "n", "t", " ", "F", "a", "l", "l", "b", "a", "c", "k", " ", "P", "a", "t", "t", "e", "r", "n">>),
                      Str(<<"r", "e", "l", "e", "a", "s", "e", " ", "d", "e", "p", "l", "o", "y", " ", "v", "e", "r", "s", "i", "o", "n", " ", "c", "h", "a", "n", "g", "e", "l", "o", "g">>), 6),
      ComposerPattern(NoField,
                      Str(<<"p", "r", " ", "m", "e", "r", "g", "e", " ", "q", "u", "a", "l", "i", "t", "y">>), 7),
      ComposerPattern(Str(<<"d", "e", "p", "l", "o", "y", " ", "r", "e", "l", "e", "a", "s", "e", " ", "v", "e", "r", "s", "i", "o", "n", " ", "a", "p", "i">>),
                      Str(<<>>), 8) }

\* pattern.get(key, '') put into the f-string
TextOf(field) == IF field.kind = "str" THEN field.value ELSE <<>>

\* the text classify_pattern_agent searches; the patterns of the model
\* have no root cause
pattern_text(pattern) ==
    lower(TextOf(pattern.name) \o <<" ">> \o TextOf(pattern.description) \o <<" ">>)

\* sum(1 for kw in rule['keywords'] if kw in pattern_text)
keyword_matches(rule, text) ==
    Cardinality({k \in 1..Len(rule.keywords) : IsSubstring(rule.keywords[k], text)})

\* position of an agent name in AgentsAscending
AgentRank(agent) == CHOOSE k \in 1..Len(AgentsAscending) : AgentsAscending[k] = agent

\* ProposalGenerator.classify_pattern_agent: scores holds (score, agent) of
\* the rules with a match; scores.sort(reverse=True) puts first the tuple
\* that is greatest by score and then by agent name
classify_pattern_agent(pattern) ==
    LET Winner(scores) ==
            IF scores = {} THEN "Dev"
            ELSE (CHOOSE s \in scores :
                    \A t \in scores :
                        \/ s.score > t.score
                        \/ s.score = t.score /\ AgentRank(s.agent) >= AgentRank(t.agent)).agent
        Scores(text) ==
            Winner({ [score |-> keyword_matches(AGENT_TYPE_RULES[r], text)
                                    * (4 - AGENT_TYPE_RULES[r].priority),
                      agent |-> AGENT_TYPE_RULES[r].agent] :
                     r \in {q \in 1..Len(AGENT_TYPE_RULES) :
                                keyword_matches(AGENT_TYPE_RULES[q], text) > 0} })
    IN Scores(pattern_text(pattern))

\* the agent of every pattern of the model, computed once
AgentOf == [p \in ComposerPatterns |-> classify_pattern_agent(p)]

\* what the oracle does with a proposal prompt: the call raises, or it
\* answers text that is no JSON, or a JSON value of some type; the object
\* of "object_own" holds an 'agent', a 'pattern_name' and a 'pattern_score'
\* of the oracle's own
OracleProposalOutcomes ==
    {"failed", "not_json", "object", "object_own", "array", "string", "null", "number"}

\* the outcomes in which the oracle answered a JSON object
ObjectOutcomes == {"object", "object_own"}

\* the values an "object_own" answer holds under the keys generate_proposals
\* assigns
OracleOwn ==
    [agent |-> "Oracle", pattern_name |-> Str(<<"o", "w", "n">>),
     pattern_score |-> OracleScore]

\* ProposalGenerator.generate_proposal: where the proposal comes from,
\* whether it is a dict, and whether it holds values of the oracle under
\* the keys generate_proposals assigns; what json.loads returned is
\* returned as it is
generate_proposal(pattern, mock, outcome) ==
    IF mock
    THEN [is_dict |-> TRUE, has_own |-> FALSE,
          source |-> IF pattern.name.kind = "str" /\ pattern.name.value \in MockProposalNames
                     THEN "MOCK_PROPOSALS" ELSE "generic"]
    ELSE IF outcome \in {"failed", "not_json"}
         THEN [is_dict |-> TRUE, has_own |-> FALSE, source |-> "fallback"]
         ELSE [is_dict |-> outcome \in ObjectOutcomes, has_own |-> outcome = "object_own",
               source |-> "oracle"]

\* ProposalGenerator.generate_defeat_test_name for a pattern called
\* pattern_name: lower(), replace(' ', '_'), then the characters that are
\* alphanumeric or an underscore, between 'test_no_' and '.py'
generate_defeat_test_name(pattern_name) ==
    LET replace_space(c) == IF c = " " THEN "_" ELSE c
        kept(c) == c \in AlnumLower \/ c = "_"
        lowered == lower(pattern_name)
        name == [i \in 1..Len(lowered) |-> replace_space(lowered[i])]
    IN <<"test_", "n", "o", "_">> \o SelectSeq(name, kept) \o <<".py">>

\* an assignment that keeps the value the oracle put under the key
setitem_default(proposal, key, value) ==
    IF proposal.has_own THEN OracleOwn[key] ELSE value

\* proposal[key] = value of generate_proposals: what the proposal holds
\* under key afterwards
setitem(proposal, key, value) == value

\* the loop of generate_proposals from pattern k on; proposal['agent'] =
\* agent raises TypeError on a proposal that is no dict.  A proposal taken
\* from MOCK_PROPOSALS is the dict of that table itself, so the assignments
\* change every proposal of the same name made before.
RECURSIVE compose_proposals(_, _, _, _, _)
compose_proposals(patterns, mock, outcomes, k, proposals) ==
    IF k > Len(patterns) THEN [raised |-> FALSE, proposals |-> proposals]
    ELSE LET Shared(made, p, agent) ==
                [i \in 1..Len(made) |->
                    IF p.source = "MOCK_PROPOSALS" /\ made[i].source = "MOCK_PROPOSALS"
                        /\ made[i].pattern_name = patterns[k].name
                    THEN [made[i] EXCEPT !.agent = agent, !.pattern_score = patterns[k].score]
                    ELSE made[i]]
             Assign(p, agent) ==
                IF ~p.is_dict THEN [raised |-> TRUE, proposals |-> proposals]
                ELSE compose_proposals(patterns, mock, outcomes, k + 1,
                        Append(Shared(proposals, p, agent),
                               [source |-> p.source,
                                agent |-> setitem(p, "agent", agent),
                                pattern_name |->
                                    setitem(p, "pattern_name", patterns[k].name),
                                pattern_score |->
                                    setitem(p, "pattern_score", patterns[k].score)]))
         IN Assign(generate_proposal(patterns[k], mock, outcomes[k]), AgentOf[patterns[k]])

\* ProposalGenerator.generate_proposals
generate_proposals(patterns, mock, outcomes) ==
    compose_proposals(patterns, mock, outcomes, 1, <<>>)

\* one run of ProposalGenerator(...).generate_proposals(analysis)
GenerateProposals ==
    /\ ~composer.called
    /\ \E mock \in BOOLEAN, patterns \in SeqsUpTo(ComposerPatterns, MaxComposed) :
        \E outcomes \in [1..Len(patterns) -> IF mock THEN {"failed"}
                                             ELSE OracleProposalOutcomes] :
            \E r \in {generate_proposals(patterns, mock, outcomes)} :
                composer' = [called |-> TRUE, mock |-> mock, patterns |-> patterns,
                             outcomes |-> outcomes,
                             agents |-> [i \in 1..Len(patterns) |-> AgentOf[patterns[i]]],
                             raised |-> r.raised, proposals |-> r.proposals]
    /\ UNCHANGED <<memVars, hookVars, cliVars, gen, scorer, reader, prompt, collector, botVars>>

ComposerNext == GenerateProposals

(***************************************************************************)
(* The version-control reader (collect.py, GitHistoryAnalyzer): the output *)
(* of git log --numstat is modelled line by line, each line split at its   *)
(* separator, and analyze parses it as the code does.                      *)
(***************************************************************************)
\* FIX_PATTERNS: each \bstem(suffix|...)?\b as its stem and the suffixes it
\* admits, the empty one included
FIX_PATTERNS ==
    << [stem |-> <<"f", "i", "x">>, suffixes |-> {<<>>, <<"e", "d">>, <<"e", "s">>, <<"i", "n", "g">>}],
       [stem |-> <<"b", "u", "g">>, suffixes |-> {<<>>}],
       [stem |-> <<"r", "e", "p", "a", "i", "r">>, suffixes |-> {<<>>}],
       [stem |-> <<"c", "o", "r", "r", "e", "c", "t">>, suffixes |-> {<<>>}],
       [stem |-> <<"r", "e", "s", "o", "l", "v", "e">>, suffixes |-> {<<>>, <<"d">>, <<"s">>}],
       [stem |-> <<"h", "o", "t", "f", "i", "x">>, suffixes |-> {<<>>}],
       [stem |-> <<"p", "a", "t", "c", "h">>, suffixes |-> {<<>>}],
       [stem |-> <<"r", "e", "v", "e", "r", "t">>, suffixes |-> {<<>>}],
       [stem |-> <<"o", "o", "p", "s">>, suffixes |-> {<<>>}],
       [stem |-> <<"t", "y", "p", "o">>, suffixes |-> {<<>>}],
       [stem |-> <<"w", "h", "o", "o", "p", "s">>, suffixes |-> {<<>>}] >>

\* the character class \w of a lower-cased message
WordChars ==
    {"a", "b", "c", "d", "e", "f", "g", "h", "i", "j", "k", "l", "m", "n", "o",
     "p", "q", "r", "s", "t", "u", "v", "w", "x", "y", "z",
     "0", "1", "2", "3", "4", "5", "6", "7", "8", "9", "_"}

\* \b at the gap after position i of text (0 is the start): exactly one of
\* the two neighbours is a word character
word_boundary(text, i) ==
    ((i >= 1) /\ (text[i] \in WordChars)) # ((i < Len(text)) /\ (text[i + 1] \in WordChars))

\* re.search(r'\bword\b', text)
re_search_word(word, text) ==
    \E i \in 1..(Len(text) - Len(word) + 1) :
        /\ SubSeq(text, i, i + Len(word) - 1) = word
        /\ word_boundary(text, i - 1)
        /\ word_boundary(text, i + Len(word) - 1)

\* re.search(pattern, message_lower, re.IGNORECASE) for one of FIX_PATTERNS
re_search(pattern, text) ==
    \E suffix \in pattern.suffixes : re_search_word(pattern.stem \o suffix, text)

\* GitHistoryAnalyzer._is_fix_commit
_is_fix_commit(message) ==
    \E p \in 1..Len(FIX_PATTERNS) : re_search(FIX_PATTERNS[p], lower(message))

\* the files of the modelled repository
PaymentsPy == "payments.py"

UtilPy == "util.py"

LogoPng == "logo.png"

\* one line of --numstat: insertions, deletions and the file name; git
\* prints '-' for both counts of a binary file
Numstat(insertions, deletions, filename) ==
    [insertions |-> insertions, deletions |-> deletions, filename |-> filename]

\* what one commit of the window is to git log: its subject and its
\* numstat lines
Change(message, numstat) == [message |-> message, numstat |-> numstat]

\* the commits the modelled repository can receive
Changes ==
    { Change(<<"f", "i", "x", " ", "r", "o", "u", "n", "d", "i", "n", "g">>, <<Numstat("3", "1", PaymentsPy)>>),
      Change(<<"u", "p", "d", "a", "t", "e", " ", "d", "o", "c", "s">>, <<Numstat("1", "0", PaymentsPy), Numstat("2", "2", UtilPy)>>),
      Change(<<"H", "O", "T", "F", "I", "X", ":", " ", "T", "y", "p", "o">>, <<Numstat("-", "-", PaymentsPy), Numstat("0", "1", UtilPy)>>),
      Change(<<"b", "u", "g", "f", "i", "x", " ", "p", "r", "e", "f", "i", "x", "e", "s">>, <<Numstat("1", "1", UtilPy), Numstat("-", "-", LogoPng)>>),
      Change(<<"M", "e", "r", "g", "e", " ", "b", "r", "a", "n", "c", "h">>, <<>>) }

\* a commit of the repository: the change and the hash it received
Commit(hash, change) ==
    [hash |-> hash, message |-> change.message, numstat |-> change.numstat]

\* str.split(sep) of one line of output: the separator found in the line
\* ("nul", "tab" or "none") and the parts between its occurrences
Line(sep, parts) == [sep |-> sep, parts |-> parts]

BlankLine == Line("none", <<"">>)

AuthorDate == "2026-01-01T00:00:00+00:00"

AuthorName == "dev"

\* the lines git prints for one commit under --format=%H%x00%aI%x00%an%x00%s
\* --numstat: the header, and after an empty line the numstat lines
commit_lines(commit) ==
    <<Line("nul", <<commit.hash, AuthorDate, AuthorName, commit.message>>)>>
    \o (IF commit.numstat = <<>> THEN <<>>
        ELSE <<BlankLine>>
             \o [i \in 1..Len(commit.numstat) |->
                    Line("tab", <<commit.numstat[i].insertions,
                                  commit.numstat[i].deletions,
                                  commit.numstat[i].filename>>)])

\* log_output.split('\n') of _run_git_command(['log', ...]) on the commits
\* of the window, newest first
RECURSIVE git_log(_)
git_log(commits) ==
    IF commits = <<>> THEN <<>>
    ELSE commit_lines(Head(commits)) \o git_log(Tail(commits))

\* int(text) of a count git prints
int(text) ==
    CASE text = "0" -> 0
      [] text = "1" -> 1
      [] text = "2" -> 2
      [] text = "3" -> 3

\* current_commit = None
None == [type |-> "None"]

\* the dictionary a header line starts
new_commit(parts) ==
    [type |-> IF _is_fix_commit(parts[4]) THEN "fix_commit" ELSE "commit",
     hash |-> parts[1], date |-> parts[2], author |-> parts[3], message |-> parts[4],
     files_changed |-> <<>>, stats |-> [insertions |-> 0, deletions |-> 0]]

\* the body of the stats-line branch
add_stats(current_commit, parts) ==
    IF Len(parts) >= 3 /\ parts[1] # "-" /\ parts[2] # "-"
    THEN [current_commit EXCEPT
            !.files_changed = Append(@, parts[3]),
            !.stats = [insertions |-> @.insertions + int(parts[1]),
                       deletions |-> @.deletions + int(parts[2])]]
    ELSE current_commit

\* the parse loop of analyze from line k on, and the append of the last
\* commit after it
RECURSIVE parse_commits(_, _, _, _)
parse_commits(lines, k, current_commit, signals) ==
    IF k > Len(lines)
    THEN IF current_commit # None THEN Append(signals, current_commit) ELSE signals
    ELSE IF lines[k].sep = "nul"
         THEN parse_commits(lines, k + 1,
                  IF Len(lines[k].parts) >= 4 THEN new_commit(lines[k].parts)
                  ELSE current_commit,
                  IF current_commit # None THEN Append(signals, current_commit)
                  ELSE signals)
         ELSE IF lines[k] # BlankLine /\ current_commit # None
              THEN parse_commits(lines, k + 1,
                       add_stats(current_commit, lines[k].parts), signals)
              ELSE parse_commits(lines, k + 1, current_commit, signals)

\* file_modification_count after one more (filepath, signal): a dictionary
\* in insertion order, as a sequence of [file, modifications]
count_modification(counts, filepath, signal) ==
    LET entry == [hash |-> signal.hash, date |-> signal.date, message |-> signal.message]
    IN  IF \E i \in 1..Len(counts) : counts[i].file = filepath
        THEN [i \in 1..Len(counts) |->
                 IF counts[i].file = filepath
                 THEN [counts[i] EXCEPT !.modifications = Append(@, entry)]
                 ELSE counts[i]]
        ELSE Append(counts, [file |-> filepath, modifications |-> <<entry>>])

\* the two loops that fill file_modification_count, from file f of signal k on
RECURSIVE file_modification_count(_, _, _, _)
file_modification_count(signals, k, f, counts) ==
    IF k > Len(signals) THEN counts
    ELSE IF f > Len(signals[k].files_changed)
         THEN file_modification_count(signals, k + 1, 1, counts)
         ELSE file_modification_count(signals, k, f + 1,
                  count_modification(counts, signals[k].files_changed[f], signals[k]))

\* a file is reported from this many modifications on
RepeatedThreshold == 3

\* a file's signal is 'high' from this many modifications on
HighThreshold == 5

\* modifications[:5]
KeptModifications == 5

signal_strength_medium(count) == "medium"

\* 'high' if len(modifications) >= 5 else 'medium'
signal_strength(count) == IF count >= HighThreshold THEN "high" ELSE "medium"

repeated_signal(entry) ==
    [type |-> "repeated_modification",
     file |-> entry.file,
     modification_count |-> Len(entry.modifications),
     modifications |-> SubSeq(entry.modifications, 1,
                              IF Len(entry.modifications) < KeptModifications
                              THEN Len(entry.modifications) ELSE KeptModifications),
     signal_strength |-> signal_strength(Len(entry.modifications))]

\* repeated_signals before the sort: the files of the dictionary with three
\* modifications or more, in the dictionary's order
RECURSIVE repeated_signals(_, _)
repeated_signals(counts, k) ==
    IF k > Len(counts) THEN <<>>
    ELSE (IF Len(counts[k].modifications) >= RepeatedThreshold
          THEN <<repeated_signal(counts[k])>> ELSE <<>>)
         \o repeated_signals(counts, k + 1)

\* list.sort(key=modification_count, reverse=True): stable, an element goes
\* after the elements whose count is not smaller
RECURSIVE insert_by_count(_, _)
insert_by_count(sorted, x) ==
    IF sorted = <<>> THEN <<x>>
    ELSE IF Head(sorted).modification_count >= x.modification_count
         THEN <<Head(sorted)>> \o insert_by_count(Tail(sorted), x)
         ELSE <<x>> \o sorted

RECURSIVE sort_by_count(_, _)
sort_by_count(items, sorted) ==
    IF items = <<>> THEN sorted
    ELSE sort_by_count(Tail(items), insert_by_count(sorted, Head(items)))

\* fix_signals = [s for s in signals if s['type'] == 'fix_commit']
fix_signals(signals) == SelectSeq(signals, LAMBDA s : s.type = "fix_commit")

\* GitHistoryAnalyzer.analyze on a repository whose window holds commits;
\* git_failed is _run_git_command raising CalledProcessError
analyze_history(commits, git_failed) ==
    LET parsed(log_output) ==
            CHOOSE signals \in {parse_commits(log_output, 1, None, <<>>)} : TRUE
        result(signals) ==
            fix_signals(signals)
            \o sort_by_count(
                   repeated_signals(file_modification_count(signals, 1, 1, <<>>), 1),
                   <<>>)
        returned(log_output) ==
            IF log_output = <<>> THEN <<>> ELSE result(parsed(log_output))
    IN  IF git_failed THEN <<>> ELSE returned(git_log(commits))

\* the repository before the reader ran: the commits of the window, newest
\* first
Repository(commits) == [called |-> FALSE, commits |-> commits]

\* one more commit lands in the window
CommitChange ==
    /\ ~reader.called
    /\ Len(reader.commits) < MaxCommits
    /\ \E change \in Changes :
        reader' = Repository(<<Commit(Len(reader.commits) + 1, change)>> \o reader.commits)
    /\ UNCHANGED <<memVars, hookVars, cliVars, gen, scorer, composer, prompt, collector, botVars>>

\* GitHistoryAnalyzer(repo_path, days).analyze()
AnalyzeHistory ==
    /\ ~reader.called
    /\ \E git_failed \in BOOLEAN :
        \E signals \in {analyze_history(reader.commits, git_failed)} :
            reader' = [called |-> TRUE, commits |-> reader.commits,
                       git_failed |-> git_failed, signals |-> signals]
    /\ UNCHANGED <<memVars, hookVars, cliVars, gen, scorer, composer, prompt, collector, botVars>>

ReaderNext == CommitChange \/ AnalyzeHistory

(***************************************************************************)
(* The three readers together (collect.py, collect_all_signals): the       *)
(* learnings file of AgentMemoryAnalyzer, the log CodeChurnAnalyzer parses *)
(* and the dictionary collect_all_signals returns.                         *)
(***************************************************************************)
\* a dictionary of the learnings file: content is a string ("str") or
\* another JSON value
Memory(category, tags, content_kind) ==
    [is_dict |-> TRUE, category |-> category, tags |-> tags, content_kind |-> content_kind]

\* an element of the learnings file that is no dictionary
ScalarMemory == [is_dict |-> FALSE]

\* the learnings file: absent, unreadable (a directory, bytes that are no
\* UTF-8), no JSON, a JSON object, or a JSON list of memories
Learnings(kind, memories) == [kind |-> kind, memories |-> memories]

LearningsFiles ==
    { Learnings("absent", <<>>),
      Learnings("unreadable", <<>>),
      Learnings("not_json", <<>>),
      Learnings("object", <<>>),
      Learnings("list", <<>>),
      Learnings("list", <<Memory("bug", <<"git">>, "str"), ScalarMemory,
                          Memory("bug", <<"git", "ci">>, "str"), Memory("bug", <<>>, "str")>>),
      Learnings("list", <<Memory("perf", <<"ci">>, "str"), Memory("perf", <<"ci">>, "str"),
                          Memory("perf", <<"ci">>, "str"), Memory("perf", <<"ci">>, "str"),
                          Memory("perf", <<"ci">>, "str")>>),
      Learnings("list", <<Memory("bug", <<>>, "str"), Memory("bug", <<>>, "number"),
                          Memory("bug", <<>>, "str")>>) }

\* a dictionary of groups after one more (key, memory): insertion order, as
\* a sequence of [key, mems]
add_to_group(groups, key, memory) ==
    IF \E i \in 1..Len(groups) : groups[i].key = key
    THEN [i \in 1..Len(groups) |->
             IF groups[i].key = key THEN [groups[i] EXCEPT !.mems = Append(@, memory)]
             ELSE groups[i]]
    ELSE Append(groups, [key |-> key, mems |-> <<memory>>])

\* category_groups after the loop over memories from k on
RECURSIVE category_groups(_, _, _)
category_groups(memories, k, groups) ==
    IF k > Len(memories) THEN groups
    ELSE category_groups(memories, k + 1,
             IF memories[k].is_dict
             THEN add_to_group(groups, memories[k].category, memories[k])
             ELSE groups)

\* tag_groups after tag t of memory k and the tags and memories after it
RECURSIVE tag_groups(_, _, _, _)
tag_groups(memories, k, t, groups) ==
    IF k > Len(memories) THEN groups
    ELSE IF ~memories[k].is_dict \/ t > Len(memories[k].tags)
         THEN tag_groups(memories, k + 1, 1, groups)
         ELSE tag_groups(memories, k, t + 1,
                  add_to_group(groups, memories[k].tags[t], memories[k]))

\* mems[:5]
KeptMemories == 5

\* the signal of one group of three memories or more; m.get('content',
\* '')[:200] raises TypeError on a content that is no string
learning_signal(field, group) ==
    LET kept == SubSeq(group.mems, 1,
                       IF Len(group.mems) < KeptMemories THEN Len(group.mems)
                       ELSE KeptMemories)
    IN  [raised |-> \E i \in 1..Len(kept) : kept[i].content_kind # "str",
         type |-> "repeated_learning",
         field |-> field,
         key |-> group.key,
         occurrences |-> Len(group.mems),
         memories |-> kept,
         signal_strength |-> IF Len(group.mems) >= HighThreshold THEN "high" ELSE "medium"]

\* the signals of the groups with three memories or more, in the
\* dictionary's order
RECURSIVE learning_signals(_, _, _)
learning_signals(field, groups, k) ==
    IF k > Len(groups) THEN <<>>
    ELSE (IF Len(groups[k].mems) >= RepeatedThreshold
          THEN <<learning_signal(field, groups[k])>> ELSE <<>>)
         \o learning_signals(field, groups, k + 1)

\* signals.sort(key=occurrences, reverse=True): stable
RECURSIVE insert_by_occurrences(_, _)
insert_by_occurrences(sorted, x) ==
    IF sorted = <<>> THEN <<x>>
    ELSE IF Head(sorted).occurrences >= x.occurrences
         THEN <<Head(sorted)>> \o insert_by_occurrences(Tail(sorted), x)
         ELSE <<x>> \o sorted

RECURSIVE sort_by_occurrences(_, _)
sort_by_occurrences(items, sorted) ==
    IF items = <<>> THEN sorted
    ELSE sort_by_occurrences(Tail(items), insert_by_occurrences(sorted, Head(items)))

\* the body of the try block of AgentMemoryAnalyzer.analyze: what it
\* returns, or that it raised
analyze_memory_body(learnings) ==
    LET signals ==
            learning_signals("category", category_groups(learnings.memories, 1, <<>>), 1)
            \o learning_signals("tag", tag_groups(learnings.memories, 1, 1, <<>>), 1)
    IN  CASE learnings.kind = "absent" -> [raised |-> FALSE, signals |-> <<>>]
          [] learnings.kind \in {"unreadable", "not_json"} -> [raised |-> TRUE, signals |-> <<>>]
          [] learnings.kind = "object" -> [raised |-> FALSE, signals |-> <<>>]
          [] OTHER ->
               IF \E i \in 1..Len(signals) : signals[i].raised
               THEN [raised |-> TRUE, signals |-> <<>>]
               ELSE [raised |-> FALSE, signals |-> sort_by_occurrences(signals, <<>>)]

\* an analyze without its except clauses
analyze_memory_uncaught(learnings) == analyze_memory_body(learnings)

\* AgentMemoryAnalyzer.analyze: except json.JSONDecodeError and except
\* Exception both return []
analyze_memory(learnings) ==
    IF analyze_memory_body(learnings).raised
    THEN [raised |-> FALSE, signals |-> <<>>]
    ELSE analyze_memory_body(learnings)

\* the lines git prints for one commit under --format=%H%x00%aI%x00%s
\* --numstat
churn_commit_lines(commit) ==
    <<Line("nul", <<commit.hash, AuthorDate, commit.message>>)>>
    \o (IF commit.numstat = <<>> THEN <<>>
        ELSE <<BlankLine>>
             \o [i \in 1..Len(commit.numstat) |->
                    Line("tab", <<commit.numstat[i].insertions,
                                  commit.numstat[i].deletions,
                                  commit.numstat[i].filename>>)])

RECURSIVE churn_log(_)
churn_log(commits) ==
    IF commits = <<>> THEN <<>>
    ELSE churn_commit_lines(Head(commits)) \o churn_log(Tail(commits))

\* file_stats after one stats line: a dictionary in insertion order
add_file_stats(file_stats, parts, current_commit) ==
    IF Len(parts) >= 3 /\ parts[1] # "-" /\ parts[2] # "-"
    THEN IF \E i \in 1..Len(file_stats) : file_stats[i].file = parts[3]
         THEN [i \in 1..Len(file_stats) |->
                  IF file_stats[i].file = parts[3]
                  THEN [file_stats[i] EXCEPT
                          !.commit_count = @ + 1,
                          !.total_insertions = @ + int(parts[1]),
                          !.total_deletions = @ + int(parts[2]),
                          !.commits = Append(@, current_commit)]
                  ELSE file_stats[i]]
         ELSE Append(file_stats,
                     [file |-> parts[3], commit_count |-> 1,
                      total_insertions |-> int(parts[1]),
                      total_deletions |-> int(parts[2]),
                      commits |-> <<current_commit>>])
    ELSE file_stats

\* the parse loop of CodeChurnAnalyzer.analyze from line k on
RECURSIVE parse_churn(_, _, _, _)
parse_churn(lines, k, current_commit, file_stats) ==
    IF k > Len(lines) THEN file_stats
    ELSE IF lines[k].sep = "nul"
         THEN parse_churn(lines, k + 1,
                  IF Len(lines[k].parts) >= 3
                  THEN [hash |-> lines[k].parts[1], date |-> lines[k].parts[2],
                        message |-> lines[k].parts[3]]
                  ELSE current_commit,
                  file_stats)
         ELSE IF lines[k] # BlankLine /\ current_commit # None
              THEN parse_churn(lines, k + 1, current_commit,
                       add_file_stats(file_stats, lines[k].parts, current_commit))
              ELSE parse_churn(lines, k + 1, current_commit, file_stats)

\* the signal of one file of file_stats
hot_file(stats) ==
    [type |-> "hot_file",
     file |-> stats.file,
     churn_score |-> stats.commit_count * (stats.total_insertions + stats.total_deletions),
     commit_count |-> stats.commit_count,
     total_changes |-> stats.total_insertions + stats.total_deletions,
     signal_strength |-> IF stats.commit_count >= HighThreshold THEN "high"
                         ELSE IF stats.commit_count >= RepeatedThreshold THEN "medium"
                         ELSE "low"]

\* signals.sort(key=churn_score, reverse=True): stable
RECURSIVE insert_by_churn(_, _)
insert_by_churn(sorted, x) ==
    IF sorted = <<>> THEN <<x>>
    ELSE IF Head(sorted).churn_score >= x.churn_score
         THEN <<Head(sorted)>> \o insert_by_churn(Tail(sorted), x)
         ELSE <<x>> \o sorted

RECURSIVE sort_by_churn(_, _)
sort_by_churn(items, sorted) ==
    IF items = <<>> THEN sorted
    ELSE sort_by_churn(Tail(items), insert_by_churn(sorted, Head(items)))

\* the default of top_n_hot_files
top_n_hot_files == 10

\* CodeChurnAnalyzer.analyze; git_failed is _run_git_command raising
\* CalledProcessError, which the except clause turns into []
analyze_churn(commits, git_failed) ==
    LET stats == parse_churn(churn_log(commits), 1, None, <<>>)
        signals == sort_by_churn([i \in 1..Len(stats) |-> hot_file(stats[i])], <<>>)
    IN  IF git_failed THEN <<>>
        ELSE SubSeq(signals, 1,
                    IF Len(signals) < top_n_hot_files THEN Len(signals) ELSE top_n_hot_files)

\* collect_all_signals: the three readers one after the other and the
\* dictionary built of their signals; an exception of a reader would leave
\* the function before it returned
collect_all_signals(commits, git_failed, learnings, churn_failed) ==
    LET git_signals == analyze_history(commits, git_failed)
        memory == analyze_memory(learnings)
        churn_signals == analyze_churn(commits, churn_failed)
    IN  IF memory.raised THEN [completed |-> FALSE]
        ELSE [completed |-> TRUE,
              git_signals |-> git_signals,
              memory_signals |-> memory.signals,
              churn_signals |-> churn_signals,
              summary |->
                  [total_signals |-> Len(git_signals) + Len(memory.signals) + Len(churn_signals),
                   fix_commits |-> Len(fix_signals(git_signals)),
                   repeated_modifications |->
                       Len(SelectSeq(git_signals, LAMBDA s : s.type = "repeated_modification")),
                   repeated_learnings |-> Len(memory.signals),
                   hot_files |-> Len(churn_signals)]]

\* most commits of the window collect_all_signals is run on
MaxCollected == 3

\* the repository and the learnings file before collect_all_signals ran
Collectable(commits) == [called |-> FALSE, commits |-> commits]

\* one more commit lands in the window
CollectorCommit ==
    /\ ~collector.called
    /\ Len(collector.commits) < MaxCollected
    /\ \E change \in Changes :
        collector' = Collectable(<<Commit(Len(collector.commits) + 1, change)>>
                                 \o collector.commits)
    /\ UNCHANGED <<memVars, hookVars, cliVars, gen, scorer, composer, reader, prompt, botVars>>

\* collect_all_signals(repo_path, days, memory_path)
CollectAllSignals ==
    /\ ~collector.called
    /\ \E git_failed \in BOOLEAN, churn_failed \in BOOLEAN, learnings \in LearningsFiles :
        \E result \in {collect_all_signals(collector.commits, git_failed, learnings, churn_failed)} :
            collector' = [called |-> TRUE, commits |-> collector.commits,
                          git_failed |-> git_failed, churn_failed |-> churn_failed,
                          learnings |-> learnings, result |-> result]
    /\ UNCHANGED <<memVars, hookVars, cliVars, gen, scorer, composer, reader, prompt, botVars>>

CollectorNext == CollectorCommit \/ CollectAllSignals

(***************************************************************************)
(* The bot process (app/bot.py, main, signal_handler and shutdown_handler):*)
(* trace holds the lines logged and the calls of bot.close() in the order  *)
(* they happened. The event loop is the one bot.run() runs; a task created *)
(* on it runs only when the loop takes it up, and the loop's runner        *)
(* cancels the tasks still pending when an exception leaves it.            *)
(***************************************************************************)
\* most iterations of the event loop before a signal
MaxTicks == 4

Signals == {"SIGTERM", "SIGINT"}

LogStarting == "Starting Discord bot..."

LogLoggedIn == "Logged in as"

LogConnected == "Connected to servers"

LogReceived == "Received signal, initiating graceful shutdown..."

LogShuttingDown == "Shutting down bot..."

LogShutdownComplete == "Shutdown complete"

LogHandlerError == "Error during signal handler shutdown"

LogLoginFailure == "Failed to log in to Discord: Invalid token"

LogHTTPError == "Discord HTTP error occurred"

LogUnexpected == "Unexpected error"

LogEnding == "Bot process ending"

CloseCalled == "bot.close()"

CloseReturned == "bot.close() returned"

\* the process before main(): the module is imported, nothing has run
Process ==
    [called |-> TRUE, pc |-> "main", trace |-> <<>>, ticks |-> 0,
     signal |-> "none", loop_running |-> FALSE, in_try |-> FALSE,
     task |-> "none", exit_code |-> -1]

\* main up to bot.run: the handlers are registered for SIGTERM and SIGINT
main_register ==
    /\ shutdown.called /\ shutdown.pc = "main"
    /\ shutdown' = [shutdown EXCEPT !.pc = "registered"]
    /\ UNCHANGED <<memVars, hookVars, cliVars, stageVars, image, handler>>

\* the try block is entered and the start is logged
main_try ==
    /\ shutdown.called /\ shutdown.pc = "registered"
    /\ shutdown' = [shutdown EXCEPT !.pc = "starting", !.in_try = TRUE,
                                    !.trace = Append(@, LogStarting)]
    /\ UNCHANGED <<memVars, hookVars, cliVars, stageVars, image, handler>>

\* bot.run(config.discord_token): the event loop runs, or the call raises
\* and the matching except clause logs and exits with 1 after the finally
bot_run ==
    /\ shutdown.called /\ shutdown.pc = "starting"
    /\ \E outcome \in {"connected", "LoginFailure", "HTTPException", "Exception"} :
        shutdown' =
            IF outcome = "connected"
            THEN [shutdown EXCEPT !.pc = "running", !.loop_running = TRUE]
            ELSE [shutdown EXCEPT
                    !.pc = "exited", !.exit_code = 1,
                    !.trace = @ \o <<CASE outcome = "LoginFailure" -> LogLoginFailure
                                       [] outcome = "HTTPException" -> LogHTTPError
                                       [] OTHER -> LogUnexpected,
                                     LogEnding>>]
    /\ UNCHANGED <<memVars, hookVars, cliVars, stageVars, image, handler>>

\* one iteration of the running loop: nothing to log, or on_ready
loop_tick ==
    /\ shutdown.called /\ shutdown.pc = "running"
    /\ shutdown.ticks < MaxTicks
    /\ \E event \in {"idle", "on_ready"} :
        shutdown' = [shutdown EXCEPT
                       !.ticks = @ + 1,
                       !.trace = IF event = "on_ready"
                                 THEN @ \o <<LogLoggedIn, LogConnected>> ELSE @]
    /\ UNCHANGED <<memVars, hookVars, cliVars, stageVars, image, handler>>

\* signal_handler(sig, frame) up to its finally clause. With the loop
\* running asyncio.create_task only schedules shutdown_handler, and
\* sys.exit(0) of the finally clause raises SystemExit into the loop at
\* once; with the loop not running run_until_complete runs shutdown_handler
\* inside the handler.
signal_handler ==
    /\ shutdown.called /\ shutdown.pc \in {"registered", "starting", "running"}
    /\ \E sig \in Signals :
        shutdown' =
            IF shutdown.loop_running
            THEN [shutdown EXCEPT !.signal = sig, !.trace = Append(@, LogReceived),
                                  !.task = "scheduled", !.pc = "SystemExit"]
            ELSE [shutdown EXCEPT !.signal = sig, !.trace = Append(@, LogReceived),
                                  !.pc = "shutdown_handler"]
    /\ UNCHANGED <<memVars, hookVars, cliVars, stageVars, image, handler>>

\* shutdown_handler up to its await: the line logged and bot.close() called
shutdown_handler_begin ==
    /\ shutdown.called /\ shutdown.pc = "shutdown_handler"
    /\ shutdown' = [shutdown EXCEPT !.pc = "bot.close",
                                    !.trace = @ \o <<LogShuttingDown, CloseCalled>>]
    /\ UNCHANGED <<memVars, hookVars, cliVars, stageVars, image, handler>>

\* await bot.close() returns and the completion is logged, or it raises and
\* the except clause of signal_handler logs the error
shutdown_handler_end ==
    /\ shutdown.called /\ shutdown.pc = "bot.close"
    /\ \E closed \in BOOLEAN :
        shutdown' = [shutdown EXCEPT
                       !.pc = "SystemExit",
                       !.trace = IF closed THEN @ \o <<CloseReturned, LogShutdownComplete>>
                                 ELSE Append(@, LogHandlerError)]
    /\ UNCHANGED <<memVars, hookVars, cliVars, stageVars, image, handler>>

\* SystemExit(0) leaves the process: the loop's runner cancels the task
\* that was scheduled and never taken up, the bot's own context may close
\* the connection on the way out, and the finally clause of main logs when
\* the exception passes through its try block
system_exit ==
    /\ shutdown.called /\ shutdown.pc = "SystemExit"
    /\ \E library_close \in (IF shutdown.loop_running THEN BOOLEAN ELSE {FALSE}) :
        shutdown' = [shutdown EXCEPT
                       !.pc = "exited", !.exit_code = 0, !.loop_running = FALSE,
                       !.task = IF @ = "scheduled" THEN "cancelled" ELSE @,
                       !.trace = @ \o (IF library_close THEN <<CloseCalled, CloseReturned>>
                                       ELSE <<>>)
                                   \o (IF shutdown.in_try THEN <<LogEnding>> ELSE <<>>)]
    /\ UNCHANGED <<memVars, hookVars, cliVars, stageVars, image, handler>>

ShutdownNext ==
    \/ main_register
    \/ main_try
    \/ bot_run
    \/ loop_tick
    \/ signal_handler
    \/ shutdown_handler_begin
    \/ shutdown_handler_end
    \/ system_exit

(***************************************************************************)
(* The image commands (app/commands/image_commands.py and                  *)
(* app/utils/permissions.py): one invocation of _handle_image_command on   *)
(* a validated configuration.                                              *)
(***************************************************************************)
\* the role names of the model; matching is by name and case-sensitive
RoleNames == {"Admin", "admin", "Member"}

\* most roles of the invoking user
MaxRoles == 2

ImageKeys == {"tapsign", "cat"}

\* the guild of an interaction: a server id, or None in a direct message
GuildIds == {"123", "456", "None"}

\* a ServerConfig as Config._load_servers_config builds it: every image is
\* a dictionary with a title and a url
ServerConfig(allowed_roles, images) == [allowed_roles |-> allowed_roles, images |-> images]

ImageData(key) == [title |-> <<"title of ", key>>, url |-> <<key, ".jpg">>]

\* the servers dictionaries of the model: server ids to ServerConfig
ServersOf ==
    { [s \in {} |-> ServerConfig(<<>>, {})],
      [s \in {"123"} |-> ServerConfig(<<"Admin">>, {"tapsign"})],
      [s \in {"123"} |-> ServerConfig(<<>>, {"tapsign", "cat"})],
      [s \in {"123", "456"} |->
          IF s = "123" THEN ServerConfig(<<"Admin", "Member">>, {"tapsign"})
          ELSE ServerConfig(<<"admin">>, {})] }

BaseImageUrls == { <<"https://heckatron.xyz/images">>, <<"https://heckatron.xyz/images", "/", "/">> }

\* str.rstrip('/')
RECURSIVE rstrip_slash(_)
rstrip_slash(url) ==
    IF url # <<>> /\ url[Len(url)] = "/" THEN rstrip_slash(SubSeq(url, 1, Len(url) - 1))
    ELSE url

\* Config.get_server_config: self.servers.get(server_id)
get_server_config(servers, server_id) ==
    IF server_id \in DOMAIN servers THEN servers[server_id] ELSE None

\* a check_permission that asks only whether the server is configured
check_permission_configured(interaction, servers) ==
    get_server_config(servers, interaction.guild_id) # None

\* check_permission(interaction, config)
check_permission(interaction, servers) ==
    LET server_config == get_server_config(servers, interaction.guild_id)
    IN  IF server_config = None THEN FALSE
        ELSE \E i \in 1..Len(interaction.roles) :
                 interaction.roles[i] \in Range(server_config.allowed_roles)

DenialMessage == "You don't have permission to use this command"

\* interaction.response.send_message(content, ephemeral=True)
Denial == [kind |-> "message", content |-> DenialMessage, ephemeral |-> TRUE]

\* interaction.response.send_message(embed=embed)
EmbedResponse(title, url) == [kind |-> "embed", title |-> title, url |-> url, ephemeral |-> FALSE]

\* the slash command as Discord delivers it to the cog
ImageCommand(servers, base_image_url, interaction, image_key) ==
    [called |-> TRUE, pc |-> "invoked", servers |-> servers,
     base_image_url |-> base_image_url, interaction |-> interaction,
     image_key |-> image_key, responses |-> <<>>, logged |-> FALSE]

\* _handle_image_command up to its await: the response it sends
handle_image_command(servers, base_image_url, interaction, image_key) ==
    LET server_config == get_server_config(servers, interaction.guild_id)
    IN  IF ~check_permission(interaction, servers) THEN Denial
        ELSE IF server_config = None \/ image_key \notin server_config.images THEN Denial
        ELSE EmbedResponse(ImageData(image_key).title,
                           rstrip_slash(base_image_url) \o <<"/">> \o ImageData(image_key).url)

\* _handle_image_command from its call to the await of send_message
HandleImageCommand ==
    /\ image.called /\ image.pc = "invoked"
    /\ \E response \in {handle_image_command(image.servers, image.base_image_url,
                                             image.interaction, image.image_key)} :
        image' = [image EXCEPT !.pc = "send_message", !.responses = Append(@, response)]
    /\ UNCHANGED <<memVars, hookVars, cliVars, stageVars, shutdown, handler>>

\* send_message returns and the handler returns, after the log line of a
\* posted image; or send_message raises and the handler raises with it
SendMessageReturns ==
    /\ image.called /\ image.pc = "send_message"
    /\ \E sent \in BOOLEAN :
        image' = [image EXCEPT
                    !.pc = IF sent THEN "returned" ELSE "raised",
                    !.logged = sent /\ image.responses[Len(image.responses)].kind = "embed"]
    /\ UNCHANGED <<memVars, hookVars, cliVars, stageVars, shutdown, handler>>

ImageNext == HandleImageCommand \/ SendMessageReturns

(***************************************************************************)
(* The global error handler of the slash commands (app/bot.py,             *)
(* create_bot_instance.on_app_command_error): one error handed to it.      *)
(***************************************************************************)
\* the class of the error the command tree hands over: the four classes
\* the handler tells apart, an error that wraps another one, and any other
ErrorKinds ==
    {"Forbidden", "NotFound", "CommandOnCooldown", "MissingPermissions",
     "CommandInvokeError", "ValueError"}

LogPermissionDenied == "Permission denied for command"

LogNotFound == "Resource not found for command"

LogUnexpectedError == "Unexpected error in command"

LogHandlerFailed == "Error in error handler"

\* the message of the branch the isinstance chain takes, None for the
\* branch that returns
error_message(error) ==
    CASE error = "Forbidden" -> "I don't have permission to do that in this server."
      [] error = "NotFound" -> "None"
      [] error = "CommandOnCooldown" -> "This command is on cooldown. Try again later."
      [] error = "MissingPermissions" -> "You don't have permission to use this command."
      [] OTHER -> "Something went wrong. Please try again later."

\* what the branch logs before it sets the message
error_log(error) ==
    CASE error = "Forbidden" -> <<LogPermissionDenied>>
      [] error = "NotFound" -> <<LogNotFound>>
      [] error \in {"CommandOnCooldown", "MissingPermissions"} -> <<>>
      [] OTHER -> <<LogUnexpectedError>>

\* a handler that always answers through the initial response
send_via_response(is_done) == "response.send_message"

\* if interaction.response.is_done(): followup.send, else
\* response.send_message
send_via(is_done) == IF is_done THEN "followup.send" ELSE "response.send_message"

\* the error and the interaction as the command tree hands them over
CommandError(error, is_done, user, guild_id, command) ==
    [called |-> TRUE, pc |-> "on_error", error |-> error, is_done |-> is_done,
     user |-> user, guild_id |-> guild_id, command |-> command,
     sent |-> <<>>, log |-> <<>>, raised |-> FALSE]

\* on_app_command_error up to its await, or to its return for NotFound
on_app_command_error ==
    /\ handler.called /\ handler.pc = "on_error"
    /\ handler' =
          IF error_message(handler.error) = "None"
          THEN [handler EXCEPT !.pc = "returned", !.log = @ \o error_log(handler.error)]
          ELSE [handler EXCEPT
                  !.pc = "send",
                  !.log = @ \o error_log(handler.error),
                  !.sent = Append(@, [via |-> send_via(handler.is_done),
                                      message |-> error_message(handler.error),
                                      ephemeral |-> TRUE])]
    /\ UNCHANGED <<memVars, hookVars, cliVars, stageVars, shutdown, image>>

\* the send returns, or it raises and the except clause logs the failure
send_returns ==
    /\ handler.called /\ handler.pc = "send"
    /\ \E delivered \in BOOLEAN :
        handler' = [handler EXCEPT
                      !.pc = "returned",
                      !.log = IF delivered THEN @ ELSE Append(@, LogHandlerFailed)]
    /\ UNCHANGED <<memVars, hookVars, cliVars, stageVars, shutdown, image>>

HandlerNext == on_app_command_error \/ send_returns

(***************************************************************************)
(* The gates of the CLI (cli.py, _ask_yes_no and _ask_choice): one prompt, *)
(* the lines the user types at it one after the other, and what the gate   *)
(* returns.                                                                *)
(***************************************************************************)
\* str.strip(): blanks and tabs at both ends are dropped
RECURSIVE str_strip(_)
str_strip(s) ==
    IF s # <<>> /\ Head(s) \in {" ", "\t"} THEN str_strip(Tail(s))
    ELSE IF s # <<>> /\ s[Len(s)] \in {" ", "\t"} THEN str_strip(SubSeq(s, 1, Len(s) - 1))
    ELSE s

\* the lines a user may type at a yes/no prompt
YesNoLines ==
    { <<>>, <<"y">>, <<"Y">>, <<"y", "e", "s">>, <<"Y", "E", "S">>, <<" ", "y", " ">>, <<"n">>, <<"N">>, <<"n", "o">>,
      <<"N", "o", " ">>, <<" ", " ">>, <<"m", "a", "y", "b", "e">>, <<"y", "y">>, <<"0">> }

\* the lines a user may type at a choice prompt
ChoiceLines == { <<>>, <<"0">>, <<"1">>, <<"2">>, <<" ", "2", " ">>, <<"3">>, <<"-", "1">>, <<"x">>, <<"y">> }

\* the lists of choices a choice prompt may offer
ChoiceLists == { <<>>, <<"first">>, <<"first", "second">> }

\* int(response): the number a line stands for; raised is ValueError
int_of(response) ==
    CASE response = <<"0">> -> [raised |-> FALSE, value |-> 0]
      [] response = <<"1">> -> [raised |-> FALSE, value |-> 1]
      [] response = <<"2">> -> [raised |-> FALSE, value |-> 2]
      [] response = <<"3">> -> [raised |-> FALSE, value |-> 3]
      [] response = <<"-", "1">> -> [raised |-> FALSE, value |-> -1]
      [] OTHER -> [raised |-> TRUE, value |-> 0]

\* a gate returns value, or goes round its loop once more
Returns(value) == [returned |-> TRUE, value |-> value]

Again == [returned |-> FALSE, value |-> "None"]

\* one pass of the loop of _ask_yes_no on the line input() returned, for a
\* gate that never asks again
yes_no_pass_default(default, line) == Returns(default)

\* one pass of the loop of _ask_yes_no on the line input() returned
yes_no_pass(default, line) ==
    LET response == lower(str_strip(line))
    IN  IF response = <<>> THEN Returns(default)
        ELSE IF response \in {<<"y">>, <<"y", "e", "s">>} THEN Returns(TRUE)
        ELSE IF response \in {<<"n">>, <<"n", "o">>} THEN Returns(FALSE)
        ELSE Again

\* one pass of the loop of _ask_choice on the line input() returned
choice_pass(choices, line) ==
    LET response == str_strip(line)
        idx == int_of(response).value - 1
    IN  IF response = <<"0">> THEN Returns("None")
        ELSE IF ~int_of(response).raised /\ 0 <= idx /\ idx < Len(choices)
             THEN Returns(choices[idx + 1])
             ELSE Again

\* a gate about to be asked: what the user is going to type, line by line
Prompt(kind, auto, default, choices, typed) ==
    [called |-> TRUE, kind |-> kind, auto |-> auto, default |-> default,
     choices |-> choices, typed |-> typed, read |-> <<>>, pc |-> "asked",
     value |-> "None"]

\* the gate returned value
Resolved(p, value) == [p EXCEPT !.pc = "returned", !.value = value]

\* input() returned the next line the user typed
Read(p) == [p EXCEPT !.read = Append(@, Head(p.typed)), !.typed = Tail(@)]

\* _ask_yes_no in auto mode: the default, without a call of input()
ask_yes_no_auto ==
    /\ prompt.pc = "asked" /\ prompt.kind = "yes_no" /\ prompt.auto
    /\ prompt' = Resolved(prompt, prompt.default)
    /\ UNCHANGED <<memVars, hookVars, cliVars, gen, scorer, composer, reader, collector, botVars>>

\* _ask_yes_no in interactive mode: one pass of 'while True'
ask_yes_no_input ==
    /\ prompt.pc = "asked" /\ prompt.kind = "yes_no" /\ ~prompt.auto
    /\ prompt.typed # <<>>
    /\ \E pass \in {yes_no_pass(prompt.default, Head(prompt.typed))} :
         prompt' = IF pass.returned THEN Resolved(Read(prompt), pass.value)
                   ELSE Read(prompt)
    /\ UNCHANGED <<memVars, hookVars, cliVars, gen, scorer, composer, reader, collector, botVars>>

\* _ask_choice in auto mode: choices[0] if choices else None
ask_choice_auto ==
    /\ prompt.pc = "asked" /\ prompt.kind = "choice" /\ prompt.auto
    /\ prompt' = Resolved(prompt, IF prompt.choices # <<>> THEN prompt.choices[1]
                                  ELSE "None")
    /\ UNCHANGED <<memVars, hookVars, cliVars, gen, scorer, composer, reader, collector, botVars>>

\* _ask_choice in interactive mode: one pass of 'while True'
ask_choice_input ==
    /\ prompt.pc = "asked" /\ prompt.kind = "choice" /\ ~prompt.auto
    /\ prompt.typed # <<>>
    /\ \E pass \in {choice_pass(prompt.choices, Head(prompt.typed))} :
         prompt' = IF pass.returned THEN Resolved(Read(prompt), pass.value)
                   ELSE Read(prompt)
    /\ UNCHANGED <<memVars, hookVars, cliVars, gen, scorer, composer, reader, collector, botVars>>

\* input() at the end of the input: EOFError leaves the gate
input_eof ==
    /\ prompt.pc = "asked" /\ ~prompt.auto
    /\ prompt.typed = <<>>
    /\ prompt' = [prompt EXCEPT !.pc = "raised"]
    /\ UNCHANGED <<memVars, hookVars, cliVars, gen, scorer, composer, reader, collector, botVars>>

PromptNext ==
    \/ ask_yes_no_auto
    \/ ask_yes_no_input
    \/ ask_choice_auto
    \/ ask_choice_input
    \/ input_eof

(***************************************************************************)
(* Specifications.                                                         *)
(***************************************************************************)
\* add_learnings calls on one store file; the hook configuration is left alone
InitMemory ==
    /\ collector = NotCalled
    /\ shutdown = NotCalled
    /\ image = NotCalled
    /\ handler = NotCalled
    /\ memory_file \in InitialMemoryFiles
    /\ mem_last = NoCall
    /\ mem_prev = NoCall
    /\ config_file = ConfigFile("absent", NoDoc)
    /\ DEFAULT_CONFIG = <<>>
    /\ hook_last = NoUpdate
    /\ hook_prev = NoUpdate
    /\ cli = NotStarted
    /\ fs = [state_dir |-> FALSE, state_file |-> StateFile("absent", DefaultState),
             files |-> UserFiles, test_files |-> {}]
    /\ fs_before = fs
    /\ gen = NotCalled
    /\ scorer = NotCalled
    /\ composer = NotCalled
    /\ reader = NotCalled
    /\ prompt = NotCalled

SpecMemory == InitMemory /\ [][MemNext]_vars

\* update calls on one configuration file; the memory store is left alone
InitHook ==
    /\ collector = NotCalled
    /\ shutdown = NotCalled
    /\ image = NotCalled
    /\ handler = NotCalled
    /\ config_file \in InitialConfigFiles
    /\ DEFAULT_CONFIG = <<>>
    /\ hook_last = NoUpdate
    /\ hook_prev = NoUpdate
    /\ memory_file = MemoryFile("absent", <<>>)
    /\ mem_last = NoCall
    /\ mem_prev = NoCall
    /\ cli = NotStarted
    /\ fs = [state_dir |-> FALSE, state_file |-> StateFile("absent", DefaultState),
             files |-> UserFiles, test_files |-> {}]
    /\ fs_before = fs
    /\ gen = NotCalled
    /\ scorer = NotCalled
    /\ composer = NotCalled
    /\ reader = NotCalled
    /\ prompt = NotCalled

SpecHook == InitHook /\ [][HookNext]_vars

\* invocations of the CLI on one repository; the children it starts work on
\* the hook configuration and the memory store
Init ==
    /\ collector = NotCalled
    /\ shutdown = NotCalled
    /\ image = NotCalled
    /\ handler = NotCalled
    /\ cli = NotStarted
    /\ fs \in InitialFs
    /\ fs_before = fs
    /\ config_file \in CliConfigFiles
    /\ memory_file \in CliMemoryFiles
    /\ DEFAULT_CONFIG = <<>>
    /\ hook_last = NoUpdate
    /\ hook_prev = NoUpdate
    /\ mem_last = NoCall
    /\ mem_prev = NoCall
    /\ gen = NotCalled
    /\ scorer = NotCalled
    /\ composer = NotCalled
    /\ reader = NotCalled
    /\ prompt = NotCalled

Spec == Init /\ [][CliNext]_vars

\* runs of generate_tests.py on one output directory
InitTests ==
    /\ collector = NotCalled
    /\ shutdown = NotCalled
    /\ image = NotCalled
    /\ handler = NotCalled
    /\ gen \in {[called |-> FALSE, output_dir |-> d] : d \in InitialOutputDirs}
    /\ scorer = NotCalled
    /\ composer = NotCalled
    /\ reader = NotCalled
    /\ prompt = NotCalled
    /\ memory_file = MemoryFile("absent", <<>>)
    /\ mem_last = NoCall
    /\ mem_prev = NoCall
    /\ config_file = ConfigFile("absent", NoDoc)
    /\ DEFAULT_CONFIG = <<>>
    /\ hook_last = NoUpdate
    /\ hook_prev = NoUpdate
    /\ cli = NotStarted
    /\ fs = [state_dir |-> FALSE, state_file |-> StateFile("absent", DefaultState),
             files |-> UserFiles, test_files |-> {}]
    /\ fs_before = fs

SpecTests == InitTests /\ [][TestsNext]_vars

\* requests to PatternAnalyzer, as analyze.py makes one per run
InitScorer ==
    /\ collector = NotCalled
    /\ shutdown = NotCalled
    /\ image = NotCalled
    /\ handler = NotCalled
    /\ scorer \in {Request(mock, top_n) : mock \in BOOLEAN, top_n \in {1, DefaultTopN}}
    /\ gen = NotCalled
    /\ composer = NotCalled
    /\ reader = NotCalled
    /\ prompt = NotCalled
    /\ memory_file = MemoryFile("absent", <<>>)
    /\ mem_last = NoCall
    /\ mem_prev = NoCall
    /\ config_file = ConfigFile("absent", NoDoc)
    /\ DEFAULT_CONFIG = <<>>
    /\ hook_last = NoUpdate
    /\ hook_prev = NoUpdate
    /\ cli = NotStarted
    /\ fs = [state_dir |-> FALSE, state_file |-> StateFile("absent", DefaultState),
             files |-> UserFiles, test_files |-> {}]
    /\ fs_before = fs

SpecScorer == InitScorer /\ [][ScorerNext]_vars

\* runs of propose_updates.py on one analysis
InitComposer ==
    /\ collector = NotCalled
    /\ shutdown = NotCalled
    /\ image = NotCalled
    /\ handler = NotCalled
    /\ composer = NotCalled
    /\ gen = NotCalled
    /\ scorer = NotCalled
    /\ reader = NotCalled
    /\ prompt = NotCalled
    /\ memory_file = MemoryFile("absent", <<>>)
    /\ mem_last = NoCall
    /\ mem_prev = NoCall
    /\ config_file = ConfigFile("absent", NoDoc)
    /\ DEFAULT_CONFIG = <<>>
    /\ hook_last = NoUpdate
    /\ hook_prev = NoUpdate
    /\ cli = NotStarted
    /\ fs = [state_dir |-> FALSE, state_file |-> StateFile("absent", DefaultState),
             files |-> UserFiles, test_files |-> {}]
    /\ fs_before = fs

SpecComposer == InitComposer /\ [][ComposerNext]_vars

\* runs of the version-control reader on one repository
InitReader ==
    /\ collector = NotCalled
    /\ shutdown = NotCalled
    /\ image = NotCalled
    /\ handler = NotCalled
    /\ reader = Repository(<<>>)
    /\ prompt = NotCalled
    /\ gen = NotCalled
    /\ scorer = NotCalled
    /\ composer = NotCalled
    /\ memory_file = MemoryFile("absent", <<>>)
    /\ mem_last = NoCall
    /\ mem_prev = NoCall
    /\ config_file = ConfigFile("absent", NoDoc)
    /\ DEFAULT_CONFIG = <<>>
    /\ hook_last = NoUpdate
    /\ hook_prev = NoUpdate
    /\ cli = NotStarted
    /\ fs = [state_dir |-> FALSE, state_file |-> StateFile("absent", DefaultState),
             files |-> UserFiles, test_files |-> {}]
    /\ fs_before = fs

SpecReader == InitReader /\ [][ReaderNext]_vars

\* runs of collect_all_signals on one repository
InitCollector ==
    /\ collector = Collectable(<<>>)
    /\ shutdown = NotCalled
    /\ image = NotCalled
    /\ handler = NotCalled
    /\ reader = NotCalled
    /\ prompt = NotCalled
    /\ gen = NotCalled
    /\ scorer = NotCalled
    /\ composer = NotCalled
    /\ memory_file = MemoryFile("absent", <<>>)
    /\ mem_last = NoCall
    /\ mem_prev = NoCall
    /\ config_file = ConfigFile("absent", NoDoc)
    /\ DEFAULT_CONFIG = <<>>
    /\ hook_last = NoUpdate
    /\ hook_prev = NoUpdate
    /\ cli = NotStarted
    /\ fs = [state_dir |-> FALSE, state_file |-> StateFile("absent", DefaultState),
             files |-> UserFiles, test_files |-> {}]
    /\ fs_before = fs

SpecCollector == InitCollector /\ [][CollectorNext]_vars

\* one run of the bot process
InitShutdown ==
    /\ shutdown = Process
    /\ collector = NotCalled
    /\ image = NotCalled
    /\ handler = NotCalled
    /\ reader = NotCalled
    /\ prompt = NotCalled
    /\ gen = NotCalled
    /\ scorer = NotCalled
    /\ composer = NotCalled
    /\ memory_file = MemoryFile("absent", <<>>)
    /\ mem_last = NoCall
    /\ mem_prev = NoCall
    /\ config_file = ConfigFile("absent", NoDoc)
    /\ DEFAULT_CONFIG = <<>>
    /\ hook_last = NoUpdate
    /\ hook_prev = NoUpdate
    /\ cli = NotStarted
    /\ fs = [state_dir |-> FALSE, state_file |-> StateFile("absent", DefaultState),
             files |-> UserFiles, test_files |-> {}]
    /\ fs_before = fs

SpecShutdown == InitShutdown /\ [][ShutdownNext]_vars

\* one image command on one configuration
InitImage ==
    /\ \E servers \in ServersOf, base_image_url \in BaseImageUrls,
          guild_id \in GuildIds, roles \in SeqsUpTo(RoleNames, MaxRoles),
          image_key \in ImageKeys :
        image = ImageCommand(servers, base_image_url,
                             [guild_id |-> guild_id, roles |-> roles], image_key)
    /\ shutdown = NotCalled
    /\ collector = NotCalled
    /\ handler = NotCalled
    /\ reader = NotCalled
    /\ prompt = NotCalled
    /\ gen = NotCalled
    /\ scorer = NotCalled
    /\ composer = NotCalled
    /\ memory_file = MemoryFile("absent", <<>>)
    /\ mem_last = NoCall
    /\ mem_prev = NoCall
    /\ config_file = ConfigFile("absent", NoDoc)
    /\ DEFAULT_CONFIG = <<>>
    /\ hook_last = NoUpdate
    /\ hook_prev = NoUpdate
    /\ cli = NotStarted
    /\ fs = [state_dir |-> FALSE, state_file |-> StateFile("absent", DefaultState),
             files |-> UserFiles, test_files |-> {}]
    /\ fs_before = fs

SpecImage == InitImage /\ [][ImageNext]_vars

\* one command error handed to the global handler
InitHandler ==
    /\ \E error \in ErrorKinds, is_done \in BOOLEAN, user \in {"987654321", "None"},
          guild_id \in {"123456789", "None"}, command \in {"test_command", "None"} :
        handler = CommandError(error, is_done, user, guild_id, command)
    /\ image = NotCalled
    /\ shutdown = NotCalled
    /\ collector = NotCalled
    /\ reader = NotCalled
    /\ prompt = NotCalled
    /\ gen = NotCalled
    /\ scorer = NotCalled
    /\ composer = NotCalled
    /\ memory_file = MemoryFile("absent", <<>>)
    /\ mem_last = NoCall
    /\ mem_prev = NoCall
    /\ config_file = ConfigFile("absent", NoDoc)
    /\ DEFAULT_CONFIG = <<>>
    /\ hook_last = NoUpdate
    /\ hook_prev = NoUpdate
    /\ cli = NotStarted
    /\ fs = [state_dir |-> FALSE, state_file |-> StateFile("absent", DefaultState),
             files |-> UserFiles, test_files |-> {}]
    /\ fs_before = fs

SpecHandler == InitHandler /\ [][HandlerNext]_vars

\* one gate of the CLI, asked once
InitPrompt ==
    /\ collector = NotCalled
    /\ shutdown = NotCalled
    /\ image = NotCalled
    /\ handler = NotCalled
    /\ prompt \in
          { Prompt("yes_no", auto, default, <<>>, typed) :
              auto \in BOOLEAN, default \in BOOLEAN,
              typed \in SeqsUpTo(YesNoLines, MaxTyped) }
          \cup
          { Prompt("choice", auto, FALSE, choices, typed) :
              auto \in BOOLEAN, choices \in ChoiceLists,
              typed \in SeqsUpTo(ChoiceLines, MaxTyped) }
    /\ gen = NotCalled
    /\ scorer = NotCalled
    /\ composer = NotCalled
    /\ reader = NotCalled
    /\ memory_file = MemoryFile("absent", <<>>)
    /\ mem_last = NoCall
    /\ mem_prev = NoCall
    /\ config_file = ConfigFile("absent", NoDoc)
    /\ DEFAULT_CONFIG = <<>>
    /\ hook_last = NoUpdate
    /\ hook_prev = NoUpdate
    /\ cli = NotStarted
    /\ fs = [state_dir |-> FALSE, state_file |-> StateFile("absent", DefaultState),
             files |-> UserFiles, test_files |-> {}]
    /\ fs_before = fs

SpecPrompt == InitPrompt /\ [][PromptNext]_vars

(***************************************************************************)
(* Claims about the memory store writer, checked under SpecMemory.         *)
(***************************************************************************)
\* what the last call worked on: the list add_learnings loaded
LoadedBefore ==
    load_existing_memories(mem_last.before, mem_last.dry_run).memories

\* the last call loaded the store and returned
LastCallRan ==
    mem_last.called /\ mem_last.before.kind # "invalid" /\ ~mem_last.result.raised

\* the entries of a list that carry pattern_id pid in their metadata
WithPatternId(entries, pid) ==
    {i \in 1..Len(entries) : entries[i].has_pid /\ entries[i].pattern_id = pid}

UniquePatternIds(entries) ==
    \A i, j \in 1..Len(entries) :
        (i # j /\ entries[i].has_pid /\ entries[j].has_pid)
            => entries[i].pattern_id # entries[j].pattern_id

\* C1: after any sequence of add_learnings calls on a store that started
\* without two entries of the same metadata.pattern_id, no two entries of the
\* store have the same metadata.pattern_id (proposals with or without a name).
C1_NoTwoEntriesSharePatternId ==
    memory_file.kind = "list" => UniquePatternIds(memory_file.entries)

\* C2: when add_learnings(P) has just been run a second time in non-preview
\* mode, the store equals the store after the first run, the second run added
\* nothing, and it skipped every pattern the first run added.
C2_SecondRunChangesNothing ==
    (mem_prev.called /\ ~mem_last.dry_run) =>
        /\ memory_file = mem_last.before
        /\ mem_last.result.added = <<>>
        /\ \A a \in Range(mem_prev.result.added) :
              \E k \in Range(mem_last.result.skipped) :
                  k.pattern_name = a.pattern_name /\ k.pattern_id = a.pattern_id

\* two named proposals at positions i < j of the last batch derive the same
\* slug, which no entry of the loaded store carries
SameBatchPair(i, j) ==
    LET P == mem_last.proposals
    IN /\ i < j
       /\ P[i].has_name /\ P[j].has_name
       /\ generate_pattern_slug(P[i].pattern_name)
            = generate_pattern_slug(P[j].pattern_name)
       /\ WithPatternId(LoadedBefore, generate_pattern_slug(P[i].pattern_name)) = {}

\* C8: when one batch holds two proposals whose names derive the same slug
\* and the store has no entry for it, exactly one entry is created for the
\* slug and the second proposal is reported in skipped.
C8_SameBatchDuplicateSkipped ==
    LastCallRan =>
        \A i, j \in 1..Len(mem_last.proposals) :
            SameBatchPair(i, j) =>
                LET P == mem_last.proposals
                    slug == generate_pattern_slug(P[i].pattern_name)
                    added == mem_last.result.added
                    skipped == mem_last.result.skipped
                IN /\ Cardinality({k \in 1..Len(added) : added[k].pattern_id = slug}) = 1
                   /\ \E k \in 1..Len(skipped) :
                        /\ skipped[k].pattern_name = P[j].pattern_name
                        /\ skipped[k].pattern_id = slug
                   /\ ~mem_last.dry_run =>
                        Cardinality(WithPatternId(memory_file.entries, slug)) = 1

\* C8 witness: a non-preview batch with such a pair has been applied
C8_Witness ==
    /\ LastCallRan /\ ~mem_last.dry_run
    /\ \E i, j \in 1..Len(mem_last.proposals) :
          /\ SameBatchPair(i, j)
          /\ mem_last.proposals[i].pattern_name # mem_last.proposals[j].pattern_name
    /\ LoadedBefore # <<>>
    /\ Len(memory_file.entries) = Len(LoadedBefore) + 1

IdsOf(entries) == {entries[i].id : i \in 1..Len(entries)}

\* C9: the first entry a call adds gets max(existing ids) + 1 (1 for an empty
\* store), each further one the previous id + 1; every added id is greater
\* than every id present before, and no two entries of the store share an id.
C9_IdsMonotonicUnique ==
    /\ memory_file.kind = "list" =>
            \A i, j \in 1..Len(memory_file.entries) :
                i # j => memory_file.entries[i].id # memory_file.entries[j].id
    /\ LastCallRan =>
            LET added == mem_last.result.added
                old == IdsOf(LoadedBefore)
            IN /\ added # <<>> =>
                    added[1].memory_id = IF old = {} THEN 1 ELSE Max(old) + 1
               /\ \A k \in 1..(Len(added) - 1) :
                    added[k + 1].memory_id = added[k].memory_id + 1
               /\ \A k \in 1..Len(added) : \A x \in old : added[k].memory_id > x
               /\ (added # <<>> /\ ~mem_last.dry_run) =>
                    /\ Len(memory_file.entries) = Len(LoadedBefore) + Len(added)
                    /\ \A k \in 1..Len(added) :
                          memory_file.entries[Len(LoadedBefore) + k].id = added[k].memory_id

\* C9 witness: a non-preview call added two entries to a store whose largest
\* id is not its length
C9_Witness ==
    /\ LastCallRan /\ ~mem_last.dry_run
    /\ Len(mem_last.result.added) >= 2
    /\ LoadedBefore # <<>>
    /\ Max(IdsOf(LoadedBefore)) > Len(LoadedBefore)
    /\ memory_file.entries[Len(memory_file.entries)].id = Max(IdsOf(LoadedBefore)) + 2

\* C17: a call of add_learnings that loaded the store returns its result
\* (it does not raise), and every proposal of the batch is accounted for in
\* the result: added, skipped, or recorded in errors.
C17_EveryProposalHandled ==
    (mem_last.called /\ mem_last.before.kind # "invalid") =>
        /\ ~mem_last.result.raised
        /\ Len(mem_last.result.added) + Len(mem_last.result.skipped)
                + Len(mem_last.result.errors) = Len(mem_last.proposals)

\* C35: after a call of add_learnings the store file holds every entry it
\* held before the call, whatever the file was, unchanged and at the same
\* place; what the call added follows them, and each added entry is one the
\* call created; a file that is no list afterwards is the file as it was.
C35_MemoryStoreAppendOnly ==
    mem_last.called =>
        LET before == mem_last.before.entries
            after == memory_file.entries
        IN /\ Len(after) >= Len(before)
           /\ SubSeq(after, 1, Len(before)) = before
           /\ \A i \in (Len(before) + 1)..Len(after) :
                after[i].added_by = "pattern-detector"
           /\ memory_file.kind # "list" => memory_file = mem_last.before

(***************************************************************************)
(* Claims about the hook configuration synchronizer, checked under         *)
(* SpecHook.                                                               *)
(***************************************************************************)
\* C10: when PreCommitUpdater.update (not a preview) has just been run a
\* second time with the same test directory and nothing changed in between,
\* whatever the file first held (absent, empty, unparsable or parsable), the
\* second run returned changed = false and the file is as the first run
\* left it.
C10_SecondUpdateChangesNothing ==
    (hook_prev.called /\ ~hook_last.dry_run) =>
        /\ ~hook_last.changed
        /\ config_file = hook_last.before

\* indices of the entries of config['repos'] with repo = "local"
LocalRepos(config) ==
    {i \in 1..Len(config.repos) : config.repos[i].has_repo /\ config.repos[i].repo = "local"}

\* indices of the hooks of a repo entry with id = "pattern-defeat-tests"
PatternHooks(repo) ==
    {j \in 1..Len(repo.hooks) : repo.hooks[j].has_id /\ repo.hooks[j].id = "pattern-defeat-tests"}

\* at most one local entry, holding at most one pattern hook
AtMostOneLocalWithAtMostOneHook(config) ==
    /\ config.repos_kind \in {"list", "missing"}
    /\ Cardinality(LocalRepos(config)) <= 1
    /\ \A i \in LocalRepos(config) : Cardinality(PatternHooks(config.repos[i])) <= 1

\* exactly one local entry, holding exactly one pattern hook
ExactlyOneLocalWithExactlyOneHook(config) ==
    /\ config.repos_kind = "list"
    /\ Cardinality(LocalRepos(config)) = 1
    /\ \A i \in LocalRepos(config) :
        /\ config.repos[i].has_hooks
        /\ Cardinality(PatternHooks(config.repos[i])) = 1

\* the configuration update would load now
LoadedConfig == load_config(config_file, DEFAULT_CONFIG).config

\* C11: whenever the configuration at hand has at most one repo = "local"
\* entry and that entry holds at most one hook with id
\* "pattern-defeat-tests", update_config applied to it with any test
\* directory, and applied again to the result with any test directory,
\* yields each time a configuration with exactly one repo = "local" entry
\* holding exactly one hook with id "pattern-defeat-tests".
C11_OneLocalRepoOnePatternHook ==
    AtMostOneLocalWithAtMostOneHook(LoadedConfig) =>
        \A t1 \in TestDirs :
            \A u1 \in {update_config(LoadedConfig, t1)} :
                /\ ~u1.raised
                /\ ExactlyOneLocalWithExactlyOneHook(u1.config)
                /\ \A t2 \in TestDirs :
                    \A u2 \in {update_config(u1.config, t2)} :
                        /\ ~u2.raised
                        /\ ExactlyOneLocalWithExactlyOneHook(u2.config)

\* an update has just written a file that had repos but no local entry, and
\* the file now has the one local entry with the one pattern hook
C11_Witness ==
    /\ hook_last.called
    /\ hook_last.changed
    /\ ~hook_last.dry_run
    /\ hook_last.before.kind = "doc"
    /\ hook_last.before.doc.repos_kind = "list"
    /\ Len(hook_last.before.doc.repos) >= 1
    /\ LocalRepos(hook_last.before.doc) = {}
    /\ config_file.kind = "doc"
    /\ config_file # hook_last.before
    /\ ExactlyOneLocalWithExactlyOneHook(config_file.doc)

\* 'repos' is a list, every repo has repo and hooks, and every hook has
\* id, name, entry and language
EveryRepoAndHookComplete(config) ==
    /\ config.repos_kind = "list"
    /\ \A i \in 1..Len(config.repos) :
        /\ config.repos[i].has_repo
        /\ config.repos[i].has_hooks
        /\ \A j \in 1..Len(config.repos[i].hooks) :
            /\ config.repos[i].hooks[j].has_id
            /\ config.repos[i].hooks[j].has_name
            /\ config.repos[i].hooks[j].has_entry
            /\ config.repos[i].hooks[j].has_language

\* C12: a step of update that changes the file on disk does so only when
\* update_config did not raise and its result is complete, and
\* the file then holds a complete configuration; a step in
\* which the result of update_config is not complete leaves the
\* file as it was and returns success = false.
C12_ValidatedBeforeWrite ==
    [][ (/\ hook_last'.called
         /\ <<config_file, hook_last, hook_prev>>' # <<config_file, hook_last, hook_prev>>) =>
            \A u \in {update_config(LoadedConfig, hook_last'.test_dir)} :
                /\ config_file' # config_file =>
                    /\ ~u.raised
                    /\ EveryRepoAndHookComplete(u.config)
                    /\ config_file'.kind = "doc"
                    /\ EveryRepoAndHookComplete(config_file'.doc)
                /\ (~u.raised /\ u.changed /\ ~EveryRepoAndHookComplete(u.config)) =>
                    /\ config_file' = config_file
                    /\ ~hook_last'.success
                    /\ ~hook_last'.changed ]_vars

\* an update that was no preview has just failed on a file whose updated
\* configuration is not complete, and the file is as it was
C12_Witness ==
    /\ hook_last.called
    /\ ~hook_last.dry_run
    /\ ~hook_last.success
    /\ hook_last.before.kind = "doc"
    /\ hook_last.before.doc.repos_kind = "list"
    /\ \A u \in {update_config(hook_last.before.doc, hook_last.test_dir)} :
        ~u.raised /\ u.changed /\ ~EveryRepoAndHookComplete(u.config)
    /\ config_file = hook_last.before

\* C32: update_config applied to the configuration at hand with any test
\* directory returns changed exactly when its result differs from the
\* input.  When the first local entry holds a pattern hook whose entry is
\* the command of the test directory, the result is the input and changed
\* is false; when that hook has another entry (or none), the result is the
\* input with that hook's entry replaced; when the local entry has no
\* pattern hook, the hook of the fixed shape is appended to its hooks; when
\* there is no local entry, a local entry holding that hook is appended to
\* the repos; in these three cases changed is true.
C32_ChangedExactlyWhenMutated ==
    LoadedConfig.repos_kind = "list" =>
        \A test_dir \in TestDirs :
            \A u \in {update_config(LoadedConfig, test_dir)} :
                LET c == LoadedConfig
                    command == get_test_command(test_dir)
                    a == FirstIndex(LocalRepos(c))
                    h == IF a = 0 THEN 0 ELSE FirstIndex(PatternHooks(c.repos[a]))
                IN /\ ~u.raised
                   /\ u.changed <=> (u.config # c)
                   /\ CASE a # 0 /\ h # 0 /\ c.repos[a].hooks[h].has_entry
                                /\ c.repos[a].hooks[h].entry = command ->
                                u.config = c /\ ~u.changed
                        [] a # 0 /\ h # 0 /\ ~(c.repos[a].hooks[h].has_entry
                                /\ c.repos[a].hooks[h].entry = command) ->
                                /\ u.changed
                                /\ u.config = [c EXCEPT
                                        !.repos[a].hooks[h].has_entry = TRUE,
                                        !.repos[a].hooks[h].entry = command]
                        [] a # 0 /\ h = 0 ->
                                /\ u.changed
                                /\ u.config = [c EXCEPT
                                        !.repos[a].has_hooks = TRUE,
                                        !.repos[a].hooks =
                                            Append(@, NewPatternHook(command))]
                        [] OTHER ->
                                /\ u.changed
                                /\ u.config = Config("list",
                                        Append(c.repos,
                                               Repo(TRUE, "local", TRUE,
                                                    <<NewPatternHook(command)>>)))

\* an update has just rewritten the entry of the pattern hook of a file
\* whose hook pointed at another test directory, and nothing else
C32_Witness ==
    /\ hook_last.called
    /\ ~hook_last.dry_run
    /\ hook_last.changed
    /\ hook_last.before.kind = "doc"
    /\ hook_last.before.doc.repos_kind = "list"
    /\ Len(hook_last.before.doc.repos) = 2
    /\ LocalRepos(hook_last.before.doc) = {2}
    /\ PatternHooks(hook_last.before.doc.repos[2]) = {1}
    /\ hook_last.before.doc.repos[2].hooks[1].has_entry
    /\ hook_last.before.doc.repos[2].hooks[1].entry # get_test_command(hook_last.test_dir)
    /\ config_file.kind = "doc"
    /\ config_file.doc = [hook_last.before.doc EXCEPT
                            !.repos[2].hooks[1].entry = get_test_command(hook_last.test_dir)]

\* C33: whenever the file is missing, empty, unparsable or no mapping,
\* load_config returns a configuration whose repos list is empty, whatever
\* calls were made before in the same process.
C33_DefaultConfigEmpty ==
    config_file.kind \in {"absent", "empty", "unparsable", "nondict"}
        => LoadedConfig = Config("list", <<>>)

\* every repo entry and every hook of before is in after at the same place
\* with the same fields; only the entry of a pattern hook may differ, and
\* after may hold more repos and more hooks
HooksPreserved(before, after) ==
    /\ after.repos_kind = "list"
    /\ Len(after.repos) >= Len(before.repos)
    /\ \A i \in 1..Len(before.repos) :
        /\ after.repos[i].has_repo = before.repos[i].has_repo
        /\ after.repos[i].repo = before.repos[i].repo
        /\ before.repos[i].has_hooks => after.repos[i].has_hooks
        /\ Len(after.repos[i].hooks) >= Len(before.repos[i].hooks)
        /\ \A j \in 1..Len(before.repos[i].hooks) :
            \/ after.repos[i].hooks[j] = before.repos[i].hooks[j]
            \/ /\ j \in PatternHooks(before.repos[i])
               /\ after.repos[i].hooks[j] =
                    [before.repos[i].hooks[j] EXCEPT
                        !.has_entry = TRUE, !.entry = after.repos[i].hooks[j].entry]

\* C34: update_config applied to the configuration at hand keeps every repo
\* entry and every hook in place with its fields, except the entry of the
\* pattern hook; and when the last update found a parsable configuration
\* file, the file as it is now keeps every repo entry and every hook of the
\* file as it was, with the same exception.
C34_ExistingHooksPreserved ==
    /\ LoadedConfig.repos_kind = "list" =>
            \A test_dir \in TestDirs :
                HooksPreserved(LoadedConfig, update_config(LoadedConfig, test_dir).config)
    /\ (hook_last.called /\ hook_last.before.kind = "doc")
            => /\ config_file.kind = "doc"
               /\ config_file.doc.repos_kind = "list"
                    => HooksPreserved(hook_last.before.doc, config_file.doc)

\* an update has just written a file that held a black repo with a black
\* hook and no local entry; the black repo is first as before and the local
\* entry follows it
C34_Witness ==
    /\ hook_last.called
    /\ ~hook_last.dry_run
    /\ hook_last.changed
    /\ hook_last.before.kind = "doc"
    /\ hook_last.before.doc.repos_kind = "list"
    /\ Len(hook_last.before.doc.repos) = 1
    /\ LocalRepos(hook_last.before.doc) = {}
    /\ Len(hook_last.before.doc.repos[1].hooks) = 1
    /\ config_file.kind = "doc"
    /\ Len(config_file.doc.repos) = 2
    /\ config_file.doc.repos[1] = hook_last.before.doc.repos[1]
    /\ LocalRepos(config_file.doc) = {2}

(***************************************************************************)
(* Claims about the orchestrating CLI, checked under Spec.                 *)
(***************************************************************************)
\* the running (or last) command executed the step called name
StepRan(name) == \E i \in 1..Len(cli.stages_run) : cli.stages_run[i].stage = name

\* every step the command executed returned 0
EveryStepReturnedZero == \A i \in 1..Len(cli.stages_run) : cli.stages_run[i].rc = 0

\* the command has returned and main has exited
Exited == cli.pc = "idle" /\ cli.runs > 0

\* C3: a hunt that was no dry run, ran in auto mode on a loadable state, found
\* at least one pattern and in which every step that ran returned 0, has,
\* once it exited, passed collect, analyze, review, generate and propose,
\* read the proposals file, updated the hook configuration and the memory
\* store from it, and exited with code 0.
C3_HuntReachesApply ==
    (/\ Exited
     /\ cli.command = "hunt" /\ ~cli.dry_run /\ cli.auto
     /\ cli.exit_code # ExitInterrupted
     /\ fs_before.state_file.kind # "notdict"
     /\ cli.patterns # {}
     /\ EveryStepReturnedZero)
    => (/\ cli.exit_code = 0
        /\ \A name \in {"collect", "analyze", "review", "generate", "propose",
                        "review_apply", "update_precommit", "update_memory"} :
                StepRan(name))

\* C4: no step of a dry run, whatever the command and whether or not in
\* auto mode, creates or changes the memory store file, the hook
\* configuration file or a file of the defeat-test directory.
C4_PreviewWritesNoStore ==
    [][cli'.dry_run =>
            /\ memory_file' = memory_file
            /\ config_file' = config_file
            /\ fs'.test_files = fs.test_files]_vars

\* C4 witness: a dry-run hunt has gone through the generate step and both
\* update gates and exited with 0, while the hook configuration file is
\* still absent, the memory store file is still absent and no test exists:
\* the same hunt without --dry-run would have written all three.
C4_Witness ==
    /\ Exited
    /\ cli.command = "hunt" /\ cli.dry_run /\ cli.exit_code = 0
    /\ StepRan("generate") /\ StepRan("update_precommit") /\ StepRan("update_memory")
    /\ config_file.kind = "absent"
    /\ memory_file.kind = "absent"
    /\ fs.test_files = {}

\* C5: once a dry run of hunt, collect or analyze has been constructed, and
\* until the next invocation, the state file, the state directory and the
\* files in it are exactly as they were before the invocation.
C5_PreviewLeavesStateUntouched ==
    (cli.runs > 0 /\ cli.dry_run /\ cli.command \in {"hunt", "collect", "analyze"})
    => (/\ fs.state_dir = fs_before.state_dir
        /\ fs.state_file = fs_before.state_file
        /\ fs.files = fs_before.files)

\* C6: whenever hunt executes a step, every step it executed before returned
\* 0; and when the step returns non-zero, hunt returns at once with that code
\* and the state file is as it was before the step, so that the
\* last_collection and last_analysis saved by earlier steps are still there.
C6_StageFailureHalts ==
    [][(cli'.command = "hunt" /\ Len(cli'.stages_run) = Len(cli.stages_run) + 1)
        => /\ \A i \in 1..Len(cli.stages_run) : cli.stages_run[i].rc = 0
           /\ cli'.stages_run[Len(cli'.stages_run)].rc # 0
                => /\ cli'.pc = "idle"
                   /\ cli'.exit_code = cli'.stages_run[Len(cli'.stages_run)].rc
                   /\ fs'.state_file = fs.state_file]_vars

\* C6 witness: a hunt exited with the non-zero code of its third or a later
\* step, and the state file still holds the last_collection and the
\* last_analysis its first two steps saved.
C6_Witness ==
    /\ Exited
    /\ cli.command = "hunt"
    /\ Len(cli.stages_run) >= 3
    /\ cli.stages_run[Len(cli.stages_run)].rc # 0
    /\ cli.exit_code = cli.stages_run[Len(cli.stages_run)].rc
    /\ fs.state_file.kind = "json"
    /\ fs.state_file.state.last_collection = <<"signals", cli.runs>>
    /\ fs.state_file.state.last_analysis = <<"patterns", cli.runs>>

\* C7: while a hunt is at a step after collect, every step it executed so
\* far ended by saving the state, and the state file records what they
\* produced: last_collection after collect, last_analysis after analyze, the
\* approved patterns after review.
C7_StageSuccessPersisted ==
    (cli.command = "hunt" /\ cli.pc \notin {"idle", "hunt_collect"})
    => (/\ \A i \in 1..Len(cli.stages_run) : cli.stages_run[i].saved
        /\ fs.state_file.state.last_collection = <<"signals", cli.runs>>
        /\ cli.pc # "hunt_analyze"
            => fs.state_file.state.last_analysis = <<"patterns", cli.runs>>
        /\ cli.pc \notin {"hunt_analyze", "hunt_review"}
            => fs.state_file.state.patterns_approved = Range(cli.patterns_to_process))

\* the place of a pattern in the list the analysis identified
PlaceOf(p) == Cardinality({q \in cli.patterns : q <= p})

\* the patterns whose question at the review was answered yes
ApprovedAtReview == {p \in cli.patterns : cli.review[PlaceOf(p)]}

\* the gate of _review_and_apply called name was answered yes
GateOpened(name) ==
    \E i \in 1..Len(cli.gates) : cli.gates[i].gate = name /\ cli.gates[i].yes

\* C21: in a hunt, whatever generate and propose are called with is the list
\* of the patterns approved at the review, in the order the analysis listed
\* them; a hunt whose review approved no pattern has exited with code 0
\* without running generate, propose or the apply step; and the hook
\* configuration update and the memory update have run only if their own
\* gate was answered yes, by the user or by auto mode.
C21_ApprovalGating ==
    cli.command = "hunt" =>
        /\ \A k \in 1..Len(cli.handed) :
              /\ Range(cli.handed[k].patterns) = ApprovedAtReview
              /\ \A a, b \in 1..Len(cli.handed[k].patterns) :
                    a < b => cli.handed[k].patterns[a] < cli.handed[k].patterns[b]
        /\ (StepRan("review") /\ ApprovedAtReview = {})
              => /\ Exited
                 /\ cli.exit_code = 0
                 /\ \A name \in {"generate", "propose", "review_apply",
                                 "update_precommit", "update_memory"} : ~StepRan(name)
        /\ StepRan("update_precommit") => GateOpened("precommit")
        /\ StepRan("update_memory") => GateOpened("memory")

\* C21 witness: an interactive hunt in which the user rejected the first of
\* two patterns and approved the second called generate and propose with the
\* second pattern alone.
C21_Witness ==
    /\ cli.command = "hunt" /\ ~cli.auto
    /\ cli.review = <<FALSE, TRUE>>
    /\ Len(cli.handed) = 2
    /\ cli.handed[1] = [stage |-> "generate", patterns |-> <<2>>]
    /\ cli.handed[2] = [stage |-> "propose", patterns |-> <<2>>]

\* C27: when the test generated for one approved pattern of a hunt failed
\* the syntax check and the tests of the other approved patterns passed it,
\* the valid tests are on disk and the hunt goes on: it is at the proposal
\* step or has run it.
C27_InvalidTestSkippedAlone ==
    (/\ cli.command = "hunt"
     /\ cli.invalid_tests # {}
     /\ cli.invalid_tests # Range(cli.patterns_to_process))
    => /\ Range(cli.patterns_to_process) \ cli.invalid_tests \subseteq fs.test_files
       /\ cli.pc = "hunt_propose" \/ StepRan("propose")

\* the steps of a hunt that goes through to its end
HuntSteps ==
    <<"collect", "analyze", "review", "generate", "propose", "review_apply",
      "update_precommit", "update_memory", "complete">>

\* C22: a hunt in preview and auto mode that has exited without being
\* interrupted went through every step, from collect to 'Pattern Hunt
\* Complete', each returning 0, and exited with code 0.
C22_PreviewAutoHuntSucceeds ==
    (Exited /\ cli.command = "hunt" /\ cli.dry_run /\ cli.auto
        /\ cli.exit_code # ExitInterrupted)
    => (/\ cli.exit_code = 0
        /\ [i \in 1..Len(cli.stages_run) |-> cli.stages_run[i].stage] = HuntSteps
        /\ EveryStepReturnedZero)

\* main has constructed the CLI and is about to call the command's handler
HandlerStarts == cli.runs > 0 /\ cli.pc = FirstStep(cli.command)

\* C24: when the state file was absent, unparseable, or parseable but no
\* state object at the start of an invocation, the command's handler starts
\* from the default state.
C24_CorruptStateDegradesToDefault ==
    (HandlerStarts /\ fs_before.state_file.kind \in {"absent", "corrupt", "notdict"})
    => cli.state = DefaultState

\* C25: a step in which the user interrupts the command ends the invocation
\* with exit code 130 and leaves the state file as the last completed step
\* saved it.
C25_InterruptKeepsSavedState ==
    [][(cli.pc # "idle" /\ cli'.pc = "idle" /\ cli'.exit_code = ExitInterrupted)
        => fs'.state_file = fs.state_file]_vars

\* the artifact a field of the persisted state names is a file
NamesArtifact(path, kind) == path # NoFile => (exists(fs.files, path) /\ path[1] = kind)

\* C26: whenever the state file holds a state, after any invocations of
\* collect, analyze and hunt in any mode, its last_collection, when set,
\* names a signals file that exists, and its last_analysis, when set, names
\* a patterns file that exists.
C26_StateNamesRealArtifacts ==
    (fs.state_file.kind = "json" /\ cli.command \in {"hunt", "collect", "analyze"})
    => /\ NamesArtifact(fs.state_file.state.last_collection, "signals")
       /\ NamesArtifact(fs.state_file.state.last_analysis, "patterns")

(***************************************************************************)
(* Claims about the defeat test generator, checked under SpecTests.        *)
(***************************************************************************)
\* the file names of the results that passed the syntax check, in order
RECURSIVE ValidFilenames(_)
ValidFilenames(results) ==
    IF results = <<>> THEN <<>>
    ELSE (IF Head(results).is_valid THEN <<Head(results).filename>> ELSE <<>>)
            \o ValidFilenames(Tail(results))

\* the directory holds a file of the result's name with the result's code
FilePresentFor(dir, result) ==
    result.filename \in DOMAIN dir /\ dir[result.filename] = result.test_code

\* C13: after a run of generate_tests that was no preview, the files
\* write_test_files wrote are, in order, those of the results whose
\* is_valid is true; is_valid of every returned result is what the syntax
\* check says of its code; no result with is_valid = false has its code in
\* the output directory, and every file the run created or changed parses.
C13_OnlyValidTestsWritten ==
    (gen.called /\ ~gen.dry_run) =>
        /\ Len(gen.results) = Len(gen.patterns)
        /\ gen.written_files = ValidFilenames(gen.results)
        /\ \A i \in 1..Len(gen.results) :
            /\ gen.results[i].is_valid = ast_parse(gen.results[i].test_code, "code")
            /\ gen.results[i].is_valid =>
                    gen.results[i].filename \in DOMAIN gen.output_dir
            /\ ~gen.results[i].is_valid =>
                    ~FilePresentFor(gen.output_dir, gen.results[i])
        /\ \A f \in DOMAIN gen.output_dir :
            (f \notin DOMAIN gen.before \/ gen.before[f] # gen.output_dir[f]) =>
                /\ ast_parse(gen.output_dir[f], "code")
                /\ \E i \in 1..Len(gen.results) :
                    /\ gen.results[i].filename = f
                    /\ gen.results[i].is_valid
                    /\ FilePresentFor(gen.output_dir, gen.results[i])

\* a batch of two results, the first invalid and the second valid, has
\* just been written: one file, the second result's
C13_Witness ==
    /\ gen.called
    /\ ~gen.dry_run
    /\ Len(gen.results) = 2
    /\ ~gen.results[1].is_valid
    /\ gen.results[2].is_valid
    /\ gen.results[1].filename # gen.results[2].filename
    /\ gen.results[1].filename \notin DOMAIN gen.output_dir
    /\ gen.written_files = <<gen.results[2].filename>>

\* C36: for every pattern of a run of generate_tests.py, the file name the
\* test is written under is the defeat test file name the proposal document
\* shows for the pattern, and is the defeat_test the memory entry of the
\* pattern records.
C36_DocumentPointsAtGeneratedTest ==
    gen.called =>
        \A i \in 1..Len(gen.results) :
            /\ gen.results[i].filename = generate_defeat_test_name(gen.patterns[i].name)
            /\ gen.results[i].filename =
                    <<"test_">> \o generate_pattern_slug(gen.patterns[i].name) \o <<".py">>

\* C29: in a run that was not in mock mode, for every pattern whose oracle
\* call failed (time-out or non-zero exit) the oracle was called again
\* before the fallback template was used, and never more often than the
\* retry budget allows.
C29_OracleCallRetried ==
    (gen.called /\ ~gen.mock) =>
        \A i \in 1..Len(gen.patterns) :
            /\ gen.oracle_calls[i] <= max_retries
            /\ gen.oracles[i].failed => gen.oracle_calls[i] > 1

(***************************************************************************)
(* Claims about the pattern scorer, checked under SpecScorer.              *)
(***************************************************************************)
\* the weight of the fixed table for an impact, matched without regard to
\* case; 1 for a missing or unrecognized value
ImpactWeight(impact) ==
    IF impact.kind # "str" THEN 1
    ELSE CASE impact.value \in {<<"h", "i", "g", "h">>, <<"H", "I", "G", "H">>} -> 3
           [] impact.value = <<"m", "e", "d", "i", "u", "m">> -> 2
           [] OTHER -> 1

\* the weight of the fixed table for a frequency, matched without regard
\* to case; 1 for a missing or unrecognized value
FrequencyWeight(frequency) ==
    IF frequency.kind # "str" THEN 1
    ELSE CASE frequency.value = <<"d", "a", "i", "l", "y">> -> 4
           [] frequency.value \in {<<"w", "e", "e", "k", "l", "y">>,
                                   <<"W", "e", "e", "k", "l", "y">>} -> 3
           [] frequency.value = <<"p", "e", "r", "-", "f", "e", "a", "t", "u", "r", "e">> -> 2
           [] OTHER -> 1

\* the request is over and analyze returned
AnalyzeReturned == scorer.called /\ scorer.pc = "done" /\ ~scorer.raised

\* C14: every pattern analyze returned carries as score the product of the
\* table weights of its impact and its frequency, whatever score the
\* oracle supplied for it.
C14_ScoreIsTableProduct ==
    AnalyzeReturned =>
        \A i \in 1..Len(scorer.patterns) :
            /\ scorer.patterns[i].has_score
            /\ scorer.patterns[i].score =
                    ImpactWeight(scorer.patterns[i].impact)
                        * FrequencyWeight(scorer.patterns[i].frequency)

\* analyze returned a pattern for which the oracle had supplied a score,
\* with impact low and frequency daily
C14_Witness ==
    /\ AnalyzeReturned
    /\ ~scorer.mock
    /\ Len(scorer.patterns) = 1
    /\ scorer.response.doc.patterns_kind = "list"
    /\ Len(scorer.response.doc.patterns) = 1
    /\ scorer.response.doc.patterns[1].has_score
    /\ scorer.response.doc.patterns[1].score = OracleScore
    /\ scorer.patterns[1].frequency = Str(<<"d", "a", "i", "l", "y">>)
    /\ scorer.patterns[1].score = 4

\* C15: at every point of a request the oracle has been called at most 3
\* times; no call follows a successful one; the k-th wait slept is
\* retry_delay * k and follows a failed k-th call; a wait is slept after the
\* first and after the second failed call before the next call is made and
\* none after the third; and _call_claude_with_retry has raised only when
\* 3 calls were made and all failed.
C15_BoundedRetry ==
    scorer.called =>
        /\ Len(scorer.calls) <= 3
        /\ \A k \in 1..Len(scorer.calls) :
            scorer.calls[k] = "ok" => (k = Len(scorer.calls) /\ scorer.returned_at = k)
        /\ scorer.returned_at # 0 =>
            (scorer.returned_at = Len(scorer.calls) /\ scorer.calls[scorer.returned_at] = "ok")
        /\ Len(scorer.waits) <= 2
        /\ \A k \in 1..Len(scorer.waits) :
            /\ scorer.waits[k] = retry_delay * k
            /\ k <= Len(scorer.calls)
            /\ scorer.calls[k] # "ok"
        /\ (scorer.pc = "call" /\ scorer.calls # <<>>) => Len(scorer.waits) = Len(scorer.calls)
        /\ scorer.pc \in {"raise", "rank", "done"} =>
            Len(scorer.waits) = (IF Len(scorer.calls) = 0 THEN 0 ELSE Len(scorer.calls) - 1)
        /\ scorer.call_raised =>
            /\ Len(scorer.calls) = 3
            /\ \A k \in 1..3 : scorer.calls[k] # "ok"

\* three calls failed, the waits were 2 and 4 seconds, and the request
\* raised
C15_Witness ==
    /\ scorer.called
    /\ scorer.call_raised
    /\ Len(scorer.calls) = 3
    /\ scorer.waits = <<retry_delay, 2 * retry_delay>>

\* the oracle's response is no JSON that can be parsed
ResponseUnparseable ==
    /\ scorer.returned_at # 0
    /\ \/ scorer.response.shape \in {"prose", "bare_fence"}
       \/ scorer.response.doc.kind = "invalid"

\* C16: when a request that was not in mock mode is over and the oracle
\* call failed on every attempt, or its response was no JSON that can be
\* parsed, analyze returned an empty pattern list and main exits 0.
C16_OracleFailureDegrades ==
    (scorer.called /\ scorer.pc = "done" /\ ~scorer.mock
        /\ (scorer.call_raised \/ ResponseUnparseable)) =>
            /\ ~scorer.raised
            /\ scorer.patterns = <<>>
            /\ scorer.exit_code = 0

\* a request is over whose three calls timed out or exited non-zero
C16_Witness ==
    /\ scorer.called
    /\ scorer.pc = "done"
    /\ ~scorer.mock
    /\ scorer.call_raised
    /\ scorer.calls[1] = "timeout"
    /\ scorer.calls[3] = "exit_nonzero"
    /\ scorer.exit_code = 0

\* the oracle's response is JSON that can be parsed and is not of the
\* expected shape: its top-level value is no object, its 'patterns' is no
\* list of objects, or the impact or the frequency of a pattern is no string
ShapeDeviates ==
    /\ scorer.returned_at # 0
    /\ ~ResponseUnparseable
    /\ \/ scorer.response.doc.kind # "object"
       \/ scorer.response.doc.patterns_kind \in {"null", "scalars"}
       \/ \E i \in 1..Len(scorer.response.doc.patterns) :
            \/ scorer.response.doc.patterns[i].impact.kind = "null"
            \/ scorer.response.doc.patterns[i].frequency.kind = "null"

\* C28: when a request that was not in mock mode is over and the oracle's
\* response was JSON of a deviating shape, analyze returned normally with an
\* empty pattern list.
C28_ShapeDeviationDegrades ==
    (scorer.called /\ scorer.pc = "done" /\ ~scorer.mock /\ ShapeDeviates) =>
        /\ ~scorer.raised
        /\ scorer.patterns = <<>>

\* the patterns analyze is about to rank, in the order the oracle (or the
\* mock table) lists them
ListedPatterns ==
    IF scorer.mock THEN MOCK_PATTERNS
    ELSE IF scorer.call_raised \/ ResponseUnparseable
                \/ scorer.response.doc.kind # "object"
                \/ scorer.response.doc.patterns_kind # "list"
         THEN <<>>
         ELSE scorer.response.doc.patterns

\* C30: the patterns main returns are in order of non-increasing score; they
\* are the first min(top_n, number listed) patterns of the ranking that puts
\* a listed pattern before another when its score is higher, or equal with
\* an earlier place in the list.
C30_StableDescendingRanking ==
    AnalyzeReturned =>
        LET listed == ListedPatterns
            m == Len(listed)
            n == Len(scorer.patterns)
            Weight(k) == ImpactWeight(listed[k].impact)
                            * FrequencyWeight(listed[k].frequency)
            Before(a, b) == Weight(a) > Weight(b) \/ (Weight(a) = Weight(b) /\ a < b)
        IN /\ n = IF m < scorer.top_n THEN m ELSE scorer.top_n
           /\ \A i \in 1..(n - 1) :
                scorer.patterns[i].score >= scorer.patterns[i + 1].score
           /\ \E place \in [1..n -> 1..m] :
                /\ \A i \in 1..n :
                    /\ scorer.patterns[i].name = listed[place[i]].name
                    /\ scorer.patterns[i].impact = listed[place[i]].impact
                    /\ scorer.patterns[i].frequency = listed[place[i]].frequency
                /\ \A i, j \in 1..n : i < j => Before(place[i], place[j])
                /\ \A k \in 1..m :
                    (\A i \in 1..n : place[i] # k)
                        => \A i \in 1..n : Before(place[i], k)

\* the oracle listed two patterns of equal score, top_n was 1, and main
\* returned the one listed first
C30_Witness ==
    /\ AnalyzeReturned
    /\ ~scorer.mock
    /\ scorer.top_n = 1
    /\ scorer.response.doc.patterns_kind = "list"
    /\ Len(scorer.response.doc.patterns) = 2
    /\ scorer.response.doc.patterns[1].name = 1
    /\ scorer.response.doc.patterns[2].name = 2
    /\ scorer.response.doc.patterns[1].impact = scorer.response.doc.patterns[2].impact
    /\ Len(scorer.patterns) = 1
    /\ scorer.patterns[1].name = 1

(***************************************************************************)
(* Claims about the proposal composer, checked under SpecComposer.         *)
(***************************************************************************)
\* C18: a call of generate_proposals returns (it does not raise), with one
\* proposal per input pattern in input order, proposal i carrying the name
\* of pattern i; when the oracle call failed or its response is no JSON
\* object, proposal i is the fallback proposal.
C18_OneProposalPerPattern ==
    composer.called =>
        /\ ~composer.raised
        /\ Len(composer.proposals) = Len(composer.patterns)
        /\ \A i \in 1..Len(composer.proposals) :
            /\ composer.proposals[i].pattern_name = composer.patterns[i].name
            /\ (~composer.mock /\ composer.outcomes[i] \notin ObjectOutcomes) =>
                    composer.proposals[i].source = "fallback"

\* the score of a rule for a pattern, 0 when no keyword of the rule hits
RuleScore(r, pattern) ==
    keyword_matches(AGENT_TYPE_RULES[r], pattern_text(pattern))
        * (4 - AGENT_TYPE_RULES[r].priority)

\* the agent the rule of the claim names: the first declared rule among
\* those of greatest score, 'Dev' when no rule has a hit
AgentByRule(pattern) ==
    LET hit == {r \in 1..Len(AGENT_TYPE_RULES) : RuleScore(r, pattern) > 0}
        best == {r \in hit : \A q \in hit : RuleScore(r, pattern) >= RuleScore(q, pattern)}
    IN IF hit = {} THEN "Dev"
       ELSE AGENT_TYPE_RULES[CHOOSE r \in best : \A q \in best : r <= q].agent

\* C19: the agent classify_pattern_agent returned for every pattern of the
\* last call is the agent of the first declared rule among the rules of
\* greatest hit_count * (4 - priority), 'Dev' when no rule has a hit.
C19_AgentClassificationRule ==
    composer.called =>
        \A i \in 1..Len(composer.patterns) :
            composer.agents[i] = AgentByRule(composer.patterns[i])

\* C31: in a call that was not in mock mode, whatever the oracle answered
\* for a pattern, the proposal made for pattern i carries the agent
\* classify_pattern_agent chose for it, the pattern's name and the
\* pattern's score.
C31_OracleNeverChoosesAgent ==
    (composer.called /\ ~composer.mock) =>
        \A i \in 1..Len(composer.proposals) :
            /\ composer.proposals[i].agent = composer.agents[i]
            /\ composer.proposals[i].pattern_name = composer.patterns[i].name
            /\ composer.proposals[i].pattern_score = composer.patterns[i].score

\* the oracle answered the same pattern once with an object holding an
\* agent, a name and a score of its own and once with a plain object, and
\* both proposals carry the classified agent
C31_Witness ==
    /\ composer.called /\ ~composer.mock /\ ~composer.raised
    /\ Len(composer.proposals) = 2
    /\ composer.patterns[1] = composer.patterns[2]
    /\ composer.outcomes = <<"object_own", "object">>
    /\ composer.proposals[1].agent = composer.proposals[2].agent
    /\ composer.proposals[1].agent # OracleOwn.agent

(***************************************************************************)
(* Claims about the version-control reader, checked under SpecReader.      *)
(***************************************************************************)
\* the fix markers, as the words a subject may contain
FixMarkerWords ==
    { <<"f", "i", "x">>, <<"f", "i", "x", "e", "d">>, <<"f", "i", "x", "e", "s">>, <<"f", "i", "x", "i", "n", "g">>, <<"b", "u", "g">>, <<"r", "e", "p", "a", "i", "r">>,
      <<"c", "o", "r", "r", "e", "c", "t">>, <<"r", "e", "s", "o", "l", "v", "e">>, <<"r", "e", "s", "o", "l", "v", "e", "d">>, <<"r", "e", "s", "o", "l", "v", "e", "s">>, <<"h", "o", "t", "f", "i", "x">>,
      <<"p", "a", "t", "c", "h">>, <<"r", "e", "v", "e", "r", "t">>, <<"o", "o", "p", "s">>, <<"t", "y", "p", "o">>, <<"w", "h", "o", "o", "p", "s">> }

\* a letter of either case, a digit or an underscore
IsWordChar(c) == str_lower(c) \in WordChars

\* the subject holds a fix marker as a whole word, in any case
FixMarked(subject) ==
    \E i \in 1..Len(subject), j \in 1..Len(subject) :
        /\ i <= j
        /\ lower(SubSeq(subject, i, j)) \in FixMarkerWords
        /\ (i = 1 \/ ~IsWordChar(subject[i - 1]))
        /\ (j = Len(subject) \/ ~IsWordChar(subject[j + 1]))

\* the commits of the window whose subject is fix-flavoured, in log order
FixCommits == SelectSeq(reader.commits, LAMBDA c : FixMarked(c.message))

\* the number of commits of the window with a non-binary numstat line of
\* the file
Touches(file) ==
    Cardinality({ i \in 1..Len(reader.commits) :
                    \E n \in 1..Len(reader.commits[i].numstat) :
                        /\ reader.commits[i].numstat[n].filename = file
                        /\ reader.commits[i].numstat[n].insertions # "-"
                        /\ reader.commits[i].numstat[n].deletions # "-" })

\* the last run of the reader returned the analysis of a log git printed
HistoryAnalyzed == reader.called /\ ~reader.git_failed

\* C20: analyze returns one fix_commit signal per commit of the window whose
\* subject holds a fix marker, in the order of the log, and after them one
\* repeated_modification signal for every file with non-binary numstat lines
\* in three commits or more of the window, fix-flavoured or not, carrying
\* that number as modification_count and 'high' as signal_strength from five
\* on, 'medium' below; a file touched fewer than three times has no such
\* signal, and the repeated-modification signals come by descending count.
C20_FixSignalsThenRepeatedModifications ==
    HistoryAnalyzed =>
      \A fix_commits \in {FixCommits} :
        LET signals == reader.signals
            fixes == Len(fix_commits)
            repeated == { k \in 1..Len(signals) : k > fixes }
        IN  /\ Len(signals) >= fixes
            /\ \A k \in 1..fixes :
                  /\ signals[k].type = "fix_commit"
                  /\ signals[k].hash = fix_commits[k].hash
            /\ \A k \in repeated : signals[k].type = "repeated_modification"
            /\ \A k \in repeated : Touches(signals[k].file) >= 3
            /\ \A file \in {PaymentsPy, UtilPy, LogoPng} :
                  \A touches \in {Touches(file)} :
                      IF touches >= 3
                      THEN /\ Cardinality({k \in repeated : signals[k].file = file}) = 1
                           /\ \A k \in repeated :
                                 signals[k].file = file =>
                                     /\ signals[k].modification_count = touches
                                     /\ signals[k].signal_strength =
                                            IF touches >= 5 THEN "high" ELSE "medium"
                      ELSE \A k \in repeated : signals[k].file # file
            /\ \A k \in repeated :
                  (k + 1) \in repeated =>
                      signals[k].modification_count >= signals[k + 1].modification_count

\* a window of five commits gave a fix signal, then a file touched five
\* times as 'high' ahead of a file touched three times as 'medium'
C20_Witness ==
    /\ HistoryAnalyzed
    /\ Len(reader.commits) = 5
    /\ \E k \in 1..Len(reader.signals) :
          /\ k + 2 = Len(reader.signals)
          /\ reader.signals[k].type = "fix_commit"
          /\ reader.signals[k + 1].type = "repeated_modification"
          /\ reader.signals[k + 1].modification_count = 5
          /\ reader.signals[k + 1].signal_strength = "high"
          /\ reader.signals[k + 2].type = "repeated_modification"
          /\ reader.signals[k + 2].modification_count = 3
          /\ reader.signals[k + 2].signal_strength = "medium"

(***************************************************************************)
(* Claims about the gates of the CLI, checked under SpecPrompt.            *)
(***************************************************************************)
\* the lines that are empty once the blanks around them are dropped
EmptyInputs == { <<>>, <<" ", " ">> }

\* the lines that say yes, in either case
YesInputs == { <<"y">>, <<"Y">>, <<"y", "e", "s">>, <<"Y", "E", "S">>, <<" ", "y", " ">> }

\* the lines that say no, in either case
NoInputs == { <<"n">>, <<"N">>, <<"n", "o">>, <<"N", "o", " ">> }

\* the gate has returned
GateReturned == prompt.called /\ prompt.pc = "returned"

\* C23: in auto mode a yes/no gate returns its default and a choice gate its
\* first choice, and neither reads a line of input; in interactive mode a
\* yes/no gate returns on the first line that is empty, says yes or says no,
\* in either case, with the default, true or false, and until then asks again
\* on every other line.
C23_GateResolution ==
    prompt.called =>
        /\ prompt.auto => prompt.read = <<>>
        /\ (GateReturned /\ prompt.auto /\ prompt.kind = "yes_no")
              => prompt.value = prompt.default
        /\ (GateReturned /\ prompt.auto /\ prompt.kind = "choice" /\ prompt.choices # <<>>)
              => prompt.value = prompt.choices[1]
        /\ (~prompt.auto /\ prompt.kind = "yes_no")
              => /\ \A i \in 1..Len(prompt.read) :
                       (i < Len(prompt.read) \/ prompt.pc # "returned")
                           <=> prompt.read[i] \notin (EmptyInputs \cup YesInputs \cup NoInputs)
                 /\ GateReturned
                       => /\ prompt.read # <<>>
                          /\ \A last \in {prompt.read[Len(prompt.read)]} :
                                /\ last \in EmptyInputs => prompt.value = prompt.default
                                /\ last \in YesInputs => prompt.value = TRUE
                                /\ last \in NoInputs => prompt.value = FALSE

\* C23 witness: an interactive gate whose default is no asked again after
\* 'maybe' and returned true on 'YES'.
C23_Witness ==
    /\ GateReturned
    /\ ~prompt.auto /\ prompt.kind = "yes_no" /\ ~prompt.default
    /\ prompt.read = << <<"m", "a", "y", "b", "e">>, <<"Y", "E", "S">> >>
    /\ prompt.value = TRUE

(***************************************************************************)
(* Claims about collect_all_signals, checked under SpecCollector.          *)
(***************************************************************************)
\* the learnings file is a list whose dictionaries hold string contents
WellFormedLearnings(learnings) ==
    /\ learnings.kind = "list"
    /\ \A i \in 1..Len(learnings.memories) :
          learnings.memories[i].is_dict => learnings.memories[i].content_kind = "str"

\* the categories and the tags that three dictionaries or more of the
\* learnings file carry
RepeatedLearnings(learnings) ==
    LET dicts == { i \in 1..Len(learnings.memories) : learnings.memories[i].is_dict }
        cats == { learnings.memories[i].category : i \in dicts }
        tags == UNION { Range(learnings.memories[i].tags) : i \in dicts }
    IN  { <<"category", c>> : c \in { c \in cats :
              Cardinality({ i \in dicts : learnings.memories[i].category = c }) >= 3 } }
        \cup
        { <<"tag", t>> : t \in { t \in tags :
              Cardinality({ i \in dicts : t \in Range(learnings.memories[i].tags) }) >= 3 } }

Positions(trace, event) == { i \in 1..Len(trace) : trace[i] = event }

\* C38: when the process has exited after SIGTERM or SIGINT arrived while
\* the event loop was running, its trace holds 'Shutting down bot...', then
\* the one call of bot.close(), then its return, then 'Shutdown complete'.
C38_GracefulShutdownOnSignal ==
    (shutdown.called /\ shutdown.pc = "exited" /\ shutdown.task # "none") =>
        /\ Cardinality(Positions(shutdown.trace, CloseCalled)) = 1
        /\ \E i \in Positions(shutdown.trace, LogShuttingDown) :
           \E j \in Positions(shutdown.trace, CloseCalled) :
           \E k \in Positions(shutdown.trace, CloseReturned) :
           \E l \in Positions(shutdown.trace, LogShutdownComplete) :
               i < j /\ j < k /\ k < l

(***************************************************************************)
(* Claims about the image commands, checked under SpecImage.               *)
(***************************************************************************)
\* the interaction's server is configured and the user carries a role whose
\* name is one of its allowed roles
UserAllowed ==
    /\ image.interaction.guild_id \in DOMAIN image.servers
    /\ Range(image.interaction.roles)
           \cap Range(image.servers[image.interaction.guild_id].allowed_roles) # {}

\* the image key is one of the images of the interaction's server
ImageConfigured ==
    /\ image.interaction.guild_id \in DOMAIN image.servers
    /\ image.image_key \in image.servers[image.interaction.guild_id].images

\* C39: once _handle_image_command has called send_message it has called it
\* exactly once; the response is the image embed exactly when the user
\* carries an allowed role of a configured server and the image key is one
\* of that server's images, and in every other case it is the ephemeral
\* denial.
C39_ImageCommandsPermissionGated ==
    (image.called /\ image.pc # "invoked") =>
        /\ Len(image.responses) = 1
        /\ image.responses[1].kind = "embed" <=> (UserAllowed /\ ImageConfigured)
        /\ image.responses[1].kind # "embed" => image.responses[1] = Denial

\* a user with an allowed role asked for an image of another server's
\* name and was denied, and the handler returned
C39_Witness ==
    /\ image.called /\ image.pc = "returned"
    /\ UserAllowed /\ ~ImageConfigured
    /\ image.responses = <<Denial>>

(***************************************************************************)
(* Claims about the global error handler, checked under SpecHandler.       *)
(***************************************************************************)
\* C40: the handler never raises and sends at most one message, which is
\* ephemeral; once it has passed its first step it has sent none for a
\* NotFound and one for every other error, through followup.send when the
\* interaction was already responded to and through response.send_message
\* when it was not; and it returns when the send fails.
C40_ErrorHandlerProtocol ==
    handler.called =>
        /\ ~handler.raised /\ handler.pc \in {"on_error", "send", "returned"}
        /\ Len(handler.sent) <= 1
        /\ \A i \in 1..Len(handler.sent) : handler.sent[i].ephemeral
        /\ handler.pc # "on_error" =>
              /\ handler.error = "NotFound" <=> handler.sent = <<>>
              /\ \A i \in 1..Len(handler.sent) :
                    handler.sent[i].via = IF handler.is_done THEN "followup.send"
                                          ELSE "response.send_message"

\* an error after the command had responded: the message went through
\* followup.send, the send failed, the failure was logged and the handler
\* returned
C40_Witness ==
    /\ handler.called /\ handler.pc = "returned" /\ ~handler.raised
    /\ handler.is_done /\ handler.error = "Forbidden"
    /\ Len(handler.sent) = 1 /\ handler.sent[1].via = "followup.send"
    /\ handler.log = <<LogPermissionDenied, LogHandlerFailed>>

====
